---- MODULE Spec2Model ----
(***************************************************************************)
(* A model of the root-finding pipeline of MultiFinder: the seed loop of   *)
(* solve_nonpolynomial, verify_roots, and parse_expression.                *)
(*                                                                         *)
(* Numbers.  A real value is a fixed-point number counted in units of      *)
(* 1e-7: 1.0 is One = 10000000, the dedup tolerance 1e-5 is Atol = 100 and *)
(* the verification tolerance 1e-6 is Tol = 10.                            *)
(***************************************************************************)
EXTENDS Integers, Sequences, FiniteSets, TLC

VARIABLES
    \* ---- solve_nonpolynomial (src/src/solver.py:155-170) ----
    npOut,      \* per seed, in seed order: what fsolve did for that seed
    npI,        \* the seed the for-loop is at (1-based); Len(npOut)+1 when exhausted
    npRoots,    \* the local list `roots`
    npFrom,     \* for each entry of npRoots, the seed it came from
    npStatus,   \* "running" | "returned" | "raised"
    \* ---- verify_roots (src/src/solver.py:201-251) ----
    vrExpr,     \* the argument expr
    vrRoots,    \* the argument roots
    vrOrig,     \* the roots the first call on this expression was given
    vrVia,      \* where roots came from: "direct" | "solve_polynomial" | "verify_roots"
    vrPc,       \* "enter" | "filter" | "acos" | "asin" | "cot" | "arctan" | "returned" | "raised"
    vrVerified, \* the local list verified_roots
    vrFirst,    \* what the previous call on this expression returned
    vrNSubs,    \* substitutions expr.subs(symbol, .) made by the current call
    \* ---- parse_expression (src/src/utils.py:81-106) ----
    peIn,       \* the argument expression, as the user gave it
    pePc,       \* "preprocess" | "split" | "symbols" | "poly" | "returned" | "raised"
    peText,     \* the local string `expression`
    peExpr,     \* the sympified expression
    peSymbol,   \* symbols[0]
    peCoeffs,   \* the returned coefficient list, "None" for None
    peIsPoly,   \* the returned flag
    peErr,      \* the exception that left parse_expression
    \* ---- solve_polynomial (src/src/solver.py:145-152) ----
    rtCoeffs,   \* the argument coeffs
    rtPc,       \* "call" | "returned"
    rtRoots,    \* the returned roots
    \* ---- test_nonlinear_solution (src/src/solver.py:322-334) ----
    tnExpr,     \* the argument expr
    tnSolutions, \* the argument solutions
    tnGiven,    \* the list the caller passed, as it was at the call
    tnI,        \* the entry of solutions the for-loop is at (1-based)
    tnResults,  \* the dict results: its entries in insertion order
    tnPc,       \* "running" | "returned" | "raised"
    \* ---- test_linear_solution (src/src/solver.py:337-350) ----
    tlCoefficients, \* the argument coefficients: a list of rows
    tlConstants, \* the argument constants
    tlSolutions, \* the argument solutions
    tlGiven,    \* the three arguments as they were at the call
    tlI,        \* the row the for-loop is at (1-based)
    tlResults,  \* the dict results: its entries in insertion order
    tlPc,       \* "running" | "returned"
    \* ---- EquationSolverApp.solve and test_solution (src/src/gui.py:523-694, 887-988) ----
    uiRequest,  \* the mode and what the input boxes hold
    uiHistory,  \* HistoryManager.history
    uiBefore,   \* the history when the last handler was called
    uiOutput,   \* the messages in the output box
    uiLast,     \* the last thing done: "solve" | "test_solution" | "edit"
    uiCaught,   \* the exception the last handler caught, "none" when none
    uiShown,    \* the verified roots solve displayed for this input
    uiChecked,  \* the verified roots test_solution had for this input
    uiResults,  \* what test_nonlinear_solution returned to test_solution
    \* ---- HistoryManager (src/src/historyManager.py:21-84) ----
    hmHistory,  \* self.history
    hmAdded,    \* per category, the records added since it was last cleared, newest first
    hmCalls,    \* the number of add_record calls made
    hmLast,     \* the last call: its name, arguments and the exception it raised
    hmGot,      \* what the last get_history returned
    \* ---- the output widget under solve, solve_newton, test_solution (src/src/gui.py:523-988) ----
    owRequest,  \* the mode and what the input boxes hold
    owState,    \* the state option of self.output_text: "disabled" | "normal"
    owLast,     \* the last handler run and the path it took
    \* ---- the linear branch of solve (src/src/gui.py:593-651) ----
    lnEntries,  \* self.linear_entries: the texts of the entry grid
    lnOut,      \* what solve reported for the grid
    \* ---- format_number (src/src/utils.py:34-46) ----
    fnNum,      \* the number passed to format_number
    fnOut,      \* the characters of the string returned
    \* ---- newton_raphson (src/src/solver.py:30-57, src/cal_try.py:8-35) ----
    nrArgs,     \* f and df as the update they give at each point, and x0
    nrX,        \* x
    nrIterValues, \* iter_values
    nrCount,    \* the iterations of the for loop begun so far
    nrOut,      \* running, the value returned or the exception raised
    \* ---- solve_periodic_function (src/src/solver.py:100-124) ----
    pfArgs,     \* period, range_min, range_max and what fsolve gives for each guess
    pfRoots,    \* roots
    pfGuess,    \* the guesses taken from initial_guesses so far
    pfOut,      \* the list returned
    \* ---- solve_linear_system (src/src/solver.py:127-142, src/solver.py:51-63) ----
    lsSystem,   \* the equations, as the rows of their augmented matrix
    lsOut       \* which function was called and what it returned or raised

npVars == <<npOut, npI, npRoots, npFrom, npStatus>>

vrVars == <<vrExpr, vrRoots, vrOrig, vrVia, vrPc, vrVerified, vrFirst, vrNSubs>>

peVars == <<peIn, pePc, peText, peExpr, peSymbol, peCoeffs, peIsPoly, peErr>>

rtVars == <<rtCoeffs, rtPc, rtRoots>>

tnVars == <<tnExpr, tnSolutions, tnGiven, tnI, tnResults, tnPc>>

tlVars == <<tlCoefficients, tlConstants, tlSolutions, tlGiven, tlI, tlResults, tlPc>>

uiVars == <<uiRequest, uiHistory, uiBefore, uiOutput, uiLast, uiCaught, uiShown, uiChecked, uiResults>>

hmVars == <<hmHistory, hmAdded, hmCalls, hmLast, hmGot>>

owVars == <<owRequest, owState, owLast>>

lnVars == <<lnEntries, lnOut>>

fnVars == <<fnNum, fnOut>>

nrVars == <<nrArgs, nrX, nrIterValues, nrCount, nrOut>>

pfVars == <<pfArgs, pfRoots, pfGuess, pfOut>>

lsVars == <<lsSystem, lsOut>>

vars == <<npVars, vrVars, peVars, rtVars, tnVars, tlVars, uiVars, hmVars, owVars, lnVars, fnVars, nrVars, pfVars, lsVars>>

\* 1.0 in fixed-point units.
One == 10000000

Abs(n) == IF n < 0 THEN -n ELSE n

Range(s) == {s[k] : k \in 1..Len(s)}

(***************************************************************************)
(* solve_nonpolynomial                                                     *)
(***************************************************************************)

\* Longest seed grid explored.
MaxSeeds == 3

\* atol=1e-5 of the np.isclose call, in units of 1e-7.
Atol == 100

\* 1/rtol for np.isclose's default rtol=1e-5, which the call does not override.
RtolInv == 100000

\* np.isclose(a, b, atol=1e-5): |a - b| <= atol + rtol * |b|, b the existing
\* root.  With integers on the left, comparing against the floor is exact.
IsCloseNoAtol(a, b) == Abs(a - b) <= Abs(b) \div RtolInv

IsClose(a, b) == Abs(a - b) <= Atol + (Abs(b) \div RtolInv)

\* The exception classes the loop's handler names: except (ValueError, RuntimeWarning).
Swallowed == {"ValueError", "RuntimeWarning"}

\* What one fsolve call can do.  It returns its solution when it converged.
\* When it did not (maxfev reached, no progress) it reports that with
\* warnings.warn(msg, RuntimeWarning) and returns its last iterate: the
\* repository installs no warnings filter, so nothing is raised.  Or the call
\* raises: ValueError from the function (a domain error), RuntimeWarning when a
\* filter turns warnings into errors, TypeError for every class the handler
\* does not name (fsolve raises it for improper input).
Value(v) == [kind |-> "value", v |-> v]

Unconverged(v) == [kind |-> "unconverged", v |-> v]

Returned(o) == o.kind \in {"value", "unconverged"}

Raise(cls) == [kind |-> cls, v |-> 0]

\* Values fsolve returns in the model: 0, 90 and 180 form a chain of gaps
\* below atol; 1.0 and 1.000015 differ by more than atol but by less than
\* atol + rtol*|b|; 1.00004 is beyond both; -50 is within atol of 0.
NpValues == {0, 90, 180, -50, One, One + 150, One + 400}

NpOutcomes ==
    {Value(v) : v \in NpValues} \cup {Unconverged(180), Unconverged(One + 400)}
        \cup {Raise("ValueError"), Raise("RuntimeWarning"), Raise("TypeError")}

SeqsUpTo(S, n) == UNION {[1..k -> S] : k \in 0..n}

NpStart ==
    /\ npOut \in SeqsUpTo(NpOutcomes, MaxSeeds)
    /\ npI = 1
    /\ npRoots = <<>>
    /\ npFrom = <<>>
    /\ npStatus = "running"

\* No call of solve_nonpolynomial is under way.
NpIdle ==
    /\ npOut = <<>>
    /\ npI = 1
    /\ npRoots = <<>>
    /\ npFrom = <<>>
    /\ npStatus = "idle"

\* No call of verify_roots is under way.
VrIdle ==
    /\ vrExpr = "none"
    /\ vrRoots = <<>>
    /\ vrOrig = <<>>
    /\ vrVia = "direct"
    /\ vrPc = "idle"
    /\ vrVerified = <<>>
    /\ vrFirst = <<>>
    /\ vrNSubs = 0

\* No call of parse_expression is under way.
PeIdle ==
    /\ peIn = <<>>
    /\ pePc = "idle"
    /\ peText = <<>>
    /\ peExpr = "none"
    /\ peSymbol = "none"
    /\ peCoeffs = "none"
    /\ peIsPoly = "none"
    /\ peErr = "none"

\* No call of solve_polynomial is under way.
RtIdle ==
    /\ rtCoeffs = <<>>
    /\ rtPc = "idle"
    /\ rtRoots = <<>>

\* No call of test_nonlinear_solution is under way.
TnIdle ==
    /\ tnExpr = "none"
    /\ tnSolutions = <<>>
    /\ tnGiven = <<>>
    /\ tnI = 1
    /\ tnResults = <<>>
    /\ tnPc = "idle"

\* No call of test_linear_solution is under way.
TlIdle ==
    /\ tlCoefficients = <<>>
    /\ tlConstants = <<>>
    /\ tlSolutions = <<>>
    /\ tlGiven = <<>>
    /\ tlI = 1
    /\ tlResults = <<>>
    /\ tlPc = "idle"

\* Neither handler has been called.
UiIdle ==
    /\ uiRequest = [mode |-> "none", lines |-> <<>>, entries |-> "none"]
    /\ uiHistory = [nonlinear |-> <<>>, linear |-> <<>>, matrix |-> <<>>]
    /\ uiBefore = [nonlinear |-> <<>>, linear |-> <<>>, matrix |-> <<>>]
    /\ uiOutput = <<>>
    /\ uiLast = "idle"
    /\ uiCaught = "none"
    /\ uiShown = [computed |-> FALSE, roots |-> <<>>]
    /\ uiChecked = [computed |-> FALSE, roots |-> <<>>]
    /\ uiResults = <<>>

\* No HistoryManager has been built.
HmIdle ==
    /\ hmHistory = [nonlinear |-> <<>>, linear |-> <<>>, matrix |-> [isDict |-> TRUE, subs |-> <<>>, list |-> <<>>]]
    /\ hmAdded = <<>>
    /\ hmCalls = 0
    /\ hmLast = [op |-> "none", type |-> "none", sub |-> "none", raised |-> "none"]
    /\ hmGot = <<>>

\* No window has been built.
OwIdle ==
    /\ owRequest = [mode |-> "none", lines |-> <<>>, entries |-> "none"]
    /\ owState = "none"
    /\ owLast = [op |-> "none", path |-> "none"]

\* No grid has been created.
LnIdle ==
    /\ lnEntries = <<>>
    /\ lnOut = "none"

\* format_number has not been called.
FnIdle ==
    /\ fnNum = [neg |-> FALSE, whole |-> 0, nano |-> 0, given |-> FALSE]
    /\ fnOut = <<"none">>

\* newton_raphson has not been called.
NrIdle ==
    /\ nrArgs = [given |-> FALSE]
    /\ nrX = [k |-> "none", v |-> 0]
    /\ nrIterValues = <<>>
    /\ nrCount = 0
    /\ nrOut = [kind |-> "none"]

\* solve_periodic_function has not been called.
PfIdle ==
    /\ pfArgs = [given |-> FALSE]
    /\ pfRoots = <<>>
    /\ pfGuess = 0
    /\ pfOut = [returned |-> FALSE, roots |-> <<>>]

\* solve_linear_system has not been called.
LsIdle ==
    /\ lsSystem = <<>>
    /\ lsOut = [by |-> "none", kind |-> "none"]

NpInit == NpStart /\ VrIdle /\ PeIdle /\ RtIdle /\ TnIdle /\ TlIdle /\ UiIdle /\ HmIdle /\ OwIdle /\ LnIdle /\ FnIdle /\ NrIdle /\ PfIdle /\ LsIdle

\* One iteration of `for guess in initial_guesses` whose fsolve call returns.
NpIterate ==
    /\ npStatus = "running"
    /\ npI <= Len(npOut)
    /\ Returned(npOut[npI])
    /\ LET root == npOut[npI].v
       IN  IF ~ \E k \in 1..Len(npRoots) : IsClose(root, npRoots[k])
           THEN /\ npRoots' = Append(npRoots, root)
                /\ npFrom' = Append(npFrom, npI)
           ELSE UNCHANGED <<npRoots, npFrom>>
    /\ npI' = npI + 1
    /\ UNCHANGED <<npOut, npStatus>>
    /\ UNCHANGED <<vrVars, peVars, rtVars, tnVars, tlVars, uiVars, hmVars, owVars, lnVars, fnVars, nrVars, pfVars, lsVars>>

\* One iteration whose fsolve call raises: the handler continues on the
\* classes it names, every other exception leaves the function.
NpRaise ==
    /\ npStatus = "running"
    /\ npI <= Len(npOut)
    /\ ~ Returned(npOut[npI])
    /\ IF npOut[npI].kind \in Swallowed
       THEN /\ npI' = npI + 1
            /\ UNCHANGED npStatus
       ELSE /\ npStatus' = "raised"
            /\ UNCHANGED npI
    /\ UNCHANGED <<npOut, npRoots, npFrom>>
    /\ UNCHANGED <<vrVars, peVars, rtVars, tnVars, tlVars, uiVars, hmVars, owVars, lnVars, fnVars, nrVars, pfVars, lsVars>>

\* return np.array(roots)
NpReturn ==
    /\ npStatus = "running"
    /\ npI > Len(npOut)
    /\ npStatus' = "returned"
    /\ UNCHANGED <<npOut, npI, npRoots, npFrom>>
    /\ UNCHANGED <<vrVars, peVars, rtVars, tnVars, tlVars, uiVars, hmVars, owVars, lnVars, fnVars, nrVars, pfVars, lsVars>>

NpNext == NpIterate \/ NpRaise \/ NpReturn

\* Seed k produced a candidate (fsolve returned), and its value.
NpIsCand(k) == Returned(npOut[k])

NpCand(k) == npOut[k].v

NpKept(k) == k \in Range(npFrom)

\* npRoots is a subsequence of the candidates, in seed order.
NpSubsequence ==
    /\ Len(npFrom) = Len(npRoots)
    /\ \A k \in 1..Len(npFrom) :
        /\ npFrom[k] \in 1..Len(npOut)
        /\ NpIsCand(npFrom[k])
        /\ npRoots[k] = NpCand(npFrom[k])
    /\ \A k \in 1..(Len(npFrom) - 1) : npFrom[k] < npFrom[k + 1]

NpNoTwoWithinAtol ==
    \A i, j \in 1..Len(npRoots) : i # j => Abs(npRoots[i] - npRoots[j]) > Atol

\* C1 as stated: the result is a subsequence of the candidates in seed order,
\* no two entries are within 1e-5 of each other, and of two candidates from
\* different seeds within 1e-5 of each other the later one is never kept.
CE_C1 ==
    npStatus = "returned" =>
        /\ NpSubsequence
        /\ NpNoTwoWithinAtol
        /\ \A i, j \in 1..Len(npOut) :
            (i < j /\ NpIsCand(i) /\ NpIsCand(j)
                /\ Abs(NpCand(i) - NpCand(j)) <= Atol) => ~ NpKept(j)

\* C1 amended: the result is a subsequence of the candidates in seed order,
\* no two entries are within 1e-5 of each other, and a candidate within 1e-5
\* of a candidate that an earlier seed put into the result is not kept.
Thm_C1 ==
    npStatus = "returned" =>
        /\ NpSubsequence
        /\ NpNoTwoWithinAtol
        /\ \A i, j \in 1..Len(npOut) :
            (i < j /\ NpIsCand(i) /\ NpIsCand(j) /\ NpKept(i)
                /\ Abs(NpCand(i) - NpCand(j)) <= Atol) => ~ NpKept(j)

\* Two seeds gave distinct candidates within 1e-5, the earlier was kept, the
\* later dropped, and a third candidate made it into the result too.
Wit_C1 ==
    /\ npStatus = "returned"
    /\ Len(npRoots) = 2
    /\ \E i, j \in 1..Len(npOut) :
        /\ i < j /\ NpIsCand(i) /\ NpIsCand(j)
        /\ NpCand(i) # NpCand(j)
        /\ Abs(NpCand(i) - NpCand(j)) <= Atol
        /\ NpKept(i) /\ ~ NpKept(j)

\* A local solve fails when fsolve does not converge or the function hits a
\* domain error.
NpFailed(k) == npOut[k].kind \in {"unconverged", "ValueError", "RuntimeWarning"}

\* C2 as stated: a seed whose local solve fails is never the source of an
\* entry of the result, and the function does not end raised at such a seed.
CE_C2 ==
    \A k \in 1..Len(npOut) :
        NpFailed(k) => (~ NpKept(k) /\ ~ (npStatus = "raised" /\ npI = k))

SpecNonpoly == NpInit /\ [][NpNext]_vars

(***************************************************************************)
(* verify_roots                                                            *)
(***************************************************************************)

\* Longest candidate list handed to verify_roots directly.
MaxRoots == 2

\* tol=1e-6, the default of verify_roots, in units of 1e-7.
Tol == 10

\* A number: complex, fixed-point.  Python's 1, 1.0 and (1+0j) are equal under
\* == and under `in`, and are one value here.
Num(re, im) == [k |-> "num", re |-> re, im |-> im]

PosInf == [k |-> "oo", re |-> 0, im |-> 0]

NegInf == [k |-> "-oo", re |-> 0, im |-> 0]

\* float nan (a candidate), sympy nan (a result).
NaN == [k |-> "nan", re |-> 0, im |-> 0]

\* A candidate sympify rejects (None): subs raises SympifyError, a ValueError.
None == [k |-> "None", re |-> 0, im |-> 0]

\* Results only: an unbounded value (oo, zoo, oo*I), whose abs() is oo; an
\* application of an undefined function, which N() leaves as it is; and the
\* ValueError raised instead of a result.
Unbounded == [k |-> "unbounded", re |-> 0, im |-> 0]

Unevaluated == [k |-> "unevaluated", re |-> 0, im |-> 0]

RaisedValueError == [k |-> "ValueError", re |-> 0, im |-> 0]

V0 == Num(0, 0)

V1 == Num(One, 0)

Vm1 == Num(-One, 0)

\* 1 - 5e-7 and 1 + 1e-6.
VNear1 == Num(One - 5, 0)

VEdge == Num(One + 10, 0)

VI == Num(0, One)

VmI == Num(0, -One)

\* The candidates verify_roots is handed directly.
VerValues == {V0, V1, Vm1, VNear1, VEdge, VI, NaN, None}

\* The expressions of the model, each named by what str(expr) prints.
\* "arctan(x)" is what sympify makes of the text arctan(x): an application of
\* an undefined function (sympy's inverse tangent is atan).
ShortCircuitExprs == {"exp(x)", "2**x", "0**acos(x)"}

PolyExprs == {"x - 1", "x**2 - 1", "x**4 - 1"}

Exprs ==
    ShortCircuitExprs \cup PolyExprs
        \cup {"acos(x)", "acos(x) - pi", "(x + 1)*acos(x)", "(x + 1)*acos(x)/(x - 1)",
              "(x - 1)*acos(x)", "asin(x)", "acot(x)",
              "atan(x)", "arctan(x)"}

\* str(expr), character by character.
ExprStr(e) ==
    CASE e = "exp(x)" -> <<"e", "x", "p", "(", "x", ")">>
      [] e = "2**x" -> <<"2", "*", "*", "x">>
      [] e = "0**acos(x)" -> <<"0", "*", "*", "a", "c", "o", "s", "(", "x", ")">>
      [] e = "x - 1" -> <<"x", " ", "-", " ", "1">>
      [] e = "x**2 - 1" -> <<"x", "*", "*", "2", " ", "-", " ", "1">>
      [] e = "x**4 - 1" -> <<"x", "*", "*", "4", " ", "-", " ", "1">>
      [] e = "acos(x)" -> <<"a", "c", "o", "s", "(", "x", ")">>
      [] e = "acos(x) - pi" -> <<"a", "c", "o", "s", "(", "x", ")", " ", "-", " ", "p", "i">>
      [] e = "asin(x)" -> <<"a", "s", "i", "n", "(", "x", ")">>
      [] e = "acot(x)" -> <<"a", "c", "o", "t", "(", "x", ")">>
      [] e = "atan(x)" -> <<"a", "t", "a", "n", "(", "x", ")">>
      [] e = "arctan(x)" -> <<"a", "r", "c", "t", "a", "n", "(", "x", ")">>
      [] e = "(x + 1)*acos(x)" ->
            <<"(", "x", " ", "+", " ", "1", ")", "*", "a", "c", "o", "s", "(", "x", ")">>
      [] e = "(x - 1)*acos(x)" ->
            <<"(", "x", " ", "-", " ", "1", ")", "*", "a", "c", "o", "s", "(", "x", ")">>
      [] e = "(x + 1)*acos(x)/(x - 1)" ->
            <<"(", "x", " ", "+", " ", "1", ")", "*", "a", "c", "o", "s", "(", "x", ")",
              "/", "(", "x", " ", "-", " ", "1", ")">>
      [] e = "Abs(x) - 1" -> <<"A", "b", "s", "(", "x", ")", " ", "-", " ", "1">>

\* sub in s
Contains(s, sub) ==
    \E i \in 0..(Len(s) - Len(sub)) : \A j \in 1..Len(sub) : s[i + j] = sub[j]

\* base of expr.as_base_exp(): exp(x) gives (E, x), a**b gives (a, b), every
\* other expression (a sum, a function application) gives (expr, 1).
BaseOf(e) ==
    CASE e = "exp(x)" -> "E"
      [] e = "2**x" -> "2"
      [] e = "0**acos(x)" -> "0"
      [] OTHER -> e

BaseIsNumber(b) == b \in {"2", "0"}

\* Poly(expr, x).all_coeffs(), highest degree first.
Coeffs(e) ==
    CASE e = "x - 1" -> <<1, -1>>
      [] e = "x**2 - 1" -> <<1, 0, -1>>
      [] e = "x**4 - 1" -> <<1, 0, 0, 0, -1>>

CAdd(a, b) == <<a[1] + b[1], a[2] + b[2]>>

CMul(a, b) == <<a[1] * b[1] - a[2] * b[2], a[1] * b[2] + a[2] * b[1]>>

\* The integer nearest to the fixed-point number a.
Round(a) == (a + (One \div 2)) \div One

\* Horner's rule at n + d, n a Gaussian integer and d a small offset (in
\* units), to first order in d: acc.a is the value at n, acc.b the part
\* linear in d.  The dropped terms are of order d*d/One, below one unit for
\* the offsets of the model.
RECURSIVE Horner(_, _, _, _, _)
Horner(c, i, n, d, acc) ==
    IF i > Len(c)
    THEN acc
    ELSE Horner(c, i + 1, n, d,
                [a |-> CAdd(CMul(acc.a, n), <<c[i], 0>>),
                 b |-> CAdd(CMul(acc.a, d), CMul(acc.b, n))])

PolyAt(c, v) ==
    LET n == <<Round(v.re), Round(v.im)>>
        d == <<v.re - n[1] * One, v.im - n[2] * One>>
        r == Horner(c, 1, n, d, [a |-> <<0, 0>>, b |-> <<0, 0>>])
    IN  Num(r.a[1] * One + r.b[1], r.a[2] * One + r.b[2])

\* N(expr.subs(x, v)) for the other expressions, at the values of the model
\* (a component beyond 200 in magnitude is written as 200).
Table(e, v) ==
    CASE e = "exp(x)" ->
           (CASE v = V0 -> Num(10000000, 0)
              [] v = V1 -> Num(27182818, 0)
              [] v = Vm1 -> Num(3678794, 0)
              [] v = VNear1 -> Num(27182805, 0)
              [] v = VEdge -> Num(27182845, 0)
              [] v = VI -> Num(5403023, 8414710)
              [] v = VmI -> Num(5403023, -8414710)
              [] v = PosInf -> Unbounded
              [] v = NegInf -> Num(0, 0))
      [] e = "2**x" ->
           (CASE v = V0 -> Num(10000000, 0)
              [] v = V1 -> Num(20000000, 0)
              [] v = Vm1 -> Num(5000000, 0)
              [] v = VNear1 -> Num(19999993, 0)
              [] v = VEdge -> Num(20000014, 0)
              [] v = VI -> Num(7692389, 6389613)
              [] v = VmI -> Num(7692389, -6389613)
              [] v = PosInf -> Unbounded
              [] v = NegInf -> Num(0, 0))
      [] e = "0**acos(x)" ->
           (CASE v = V0 -> Num(0, 0)
              [] v = V1 -> Num(10000000, 0)
              [] v = Vm1 -> Num(0, 0)
              [] v = VNear1 -> Num(0, 0)
              [] v = VEdge -> NaN
              [] v = VI -> NaN
              [] v = VmI -> NaN
              [] v = PosInf -> NaN
              [] v = NegInf -> NaN)
      [] e = "acos(x)" ->
           (CASE v = V0 -> Num(15707963, 0)
              [] v = V1 -> Num(0, 0)
              [] v = Vm1 -> Num(31415927, 0)
              [] v = VNear1 -> Num(10000, 0)
              [] v = VEdge -> Num(0, -14142)
              [] v = VI -> Num(15707963, -8813736)
              [] v = VmI -> Num(15707963, 8813736)
              [] v = PosInf -> Unbounded
              [] v = NegInf -> Unbounded)
      [] e = "acos(x) - pi" ->
           (CASE v = V0 -> Num(-15707963, 0)
              [] v = V1 -> Num(-31415927, 0)
              [] v = Vm1 -> Num(0, 0)
              [] v = VNear1 -> Num(-31405927, 0)
              [] v = VEdge -> Num(-31415927, -14142)
              [] v = VI -> Num(-15707963, -8813736)
              [] v = VmI -> Num(-15707963, 8813736)
              [] v = PosInf -> Unbounded
              [] v = NegInf -> Unbounded)
      [] e = "asin(x)" ->
           (CASE v = V0 -> Num(0, 0)
              [] v = V1 -> Num(15707963, 0)
              [] v = Vm1 -> Num(-15707963, 0)
              [] v = VNear1 -> Num(15697963, 0)
              [] v = VEdge -> Num(15707963, 14142)
              [] v = VI -> Num(0, 8813736)
              [] v = VmI -> Num(0, -8813736)
              [] v = PosInf -> Unbounded
              [] v = NegInf -> Unbounded)
      [] e = "acot(x)" ->
           (CASE v = V0 -> Num(15707963, 0)
              [] v = V1 -> Num(7853982, 0)
              [] v = Vm1 -> Num(-7853982, 0)
              [] v = VNear1 -> Num(7853984, 0)
              [] v = VEdge -> Num(7853977, 0)
              [] v = VI -> Unbounded
              [] v = VmI -> Unbounded
              [] v = PosInf -> Num(0, 0)
              [] v = NegInf -> Num(0, 0))
      [] e = "atan(x)" ->
           (CASE v = V0 -> Num(0, 0)
              [] v = V1 -> Num(7853982, 0)
              [] v = Vm1 -> Num(-7853982, 0)
              [] v = VNear1 -> Num(7853979, 0)
              [] v = VEdge -> Num(7853987, 0)
              [] v = VI -> Unbounded
              [] v = VmI -> Unbounded
              [] v = PosInf -> Num(15707963, 0)
              [] v = NegInf -> Num(-15707963, 0))
      [] e = "(x + 1)*acos(x)" ->
           (CASE v = V0 -> Num(15707963, 0)
              [] v = V1 -> Num(0, 0)
              [] v = Vm1 -> Num(0, 0)
              [] v = VNear1 -> Num(20000, 0)
              [] v = VEdge -> Num(0, -28284)
              [] v = VI -> Num(24521699, 6894227)
              [] v = VmI -> Num(24521699, -6894227)
              [] v = PosInf -> Unbounded
              [] v = NegInf -> Unbounded)
      [] e = "(x + 1)*acos(x)/(x - 1)" ->
           (CASE v = V0 -> Num(-15707963, 0)
              [] v = V1 -> NaN
              [] v = Vm1 -> Num(0, 0)
              [] v = VNear1 -> Num(-2000000000, 0)
              [] v = VEdge -> Num(0, -2000000000)
              [] v = VI -> Num(-8813736, -15707963)
              [] v = VmI -> Num(-8813736, 15707963)
              [] v = PosInf -> NaN
              [] v = NegInf -> NaN)
      [] e = "(x - 1)*acos(x)" ->
           (CASE v = V0 -> Num(-15707963, 0)
              [] v = V1 -> Num(0, 0)
              [] v = Vm1 -> Num(-62831853, 0)
              [] v = VNear1 -> Num(0, 0)
              [] v = VEdge -> Num(0, 0)
              [] v = VI -> Num(-6894227, 24521699)
              [] v = VmI -> Num(-6894227, -24521699)
              [] v = PosInf -> Unbounded
              [] v = NegInf -> Unbounded)
      [] e = "Abs(x) - 1" ->
           (CASE v = V0 -> Num(-10000000, 0)
              [] v = V1 -> Num(0, 0)
              [] v = Vm1 -> Num(0, 0)
              [] v = VNear1 -> Num(-5, 0)
              [] v = VEdge -> Num(10, 0)
              [] v = VI -> Num(0, 0)
              [] v = VmI -> Num(0, 0))

\* N(expr.subs(symbol, v)).
Subs(e, v) ==
    IF v = None THEN RaisedValueError
    ELSE IF e = "arctan(x)" THEN Unevaluated
    ELSE IF v = NaN THEN NaN
    ELSE IF e \in PolyExprs
         THEN IF v.k = "num" THEN PolyAt(Coeffs(e), v) ELSE Unbounded
    ELSE Table(e, v)

\* abs(N(expr.subs(symbol, v))) < tol: "true", "false", or the exception
\* raised.  Comparing nan raises TypeError (invalid NaN comparison); an
\* unevaluated comparison raises TypeError when `if` asks for its truth value.
CheckNotStrict(e, v) ==
    LET r == Subs(e, v)
    IN  CASE r.k = "ValueError" -> "ValueError"
          [] r.k \in {"nan", "unevaluated"} -> "TypeError"
          [] r.k = "unbounded" -> "false"
          [] OTHER ->
                IF /\ Abs(r.re) <= Tol
                   /\ Abs(r.im) <= Tol
                   /\ r.re * r.re + r.im * r.im <= Tol * Tol
                THEN "true" ELSE "false"

CheckRealOnly(e, v) ==
    LET r == Subs(e, v)
    IN  CASE r.k = "ValueError" -> "ValueError"
          [] r.k \in {"nan", "unevaluated"} -> "TypeError"
          [] r.k = "unbounded" -> "false"
          [] OTHER ->
                IF v.k = "num" /\ v.im = 0 /\ Abs(r.re) < Tol /\ r.im = 0
                THEN "true" ELSE "false"

Check(e, v) ==
    LET r == Subs(e, v)
    IN  CASE r.k = "ValueError" -> "ValueError"
          [] r.k \in {"nan", "unevaluated"} -> "TypeError"
          [] r.k = "unbounded" -> "false"
          [] OTHER ->
                IF /\ Abs(r.re) < Tol
                   /\ Abs(r.im) < Tol
                   /\ r.re * r.re + r.im * r.im < Tol * Tol
                THEN "true" ELSE "false"

\* The test that returns [] before any substitution.
ShortCircuitNever(e) == FALSE

ShortCircuit(e) ==
    /\ Contains(ExprStr(e), <<"e", "x", "p">>) \/ Contains(ExprStr(e), <<"*", "*">>)
    /\ BaseOf(e) = "E" \/ BaseIsNumber(BaseOf(e))

\* The loop over roots: a candidate is appended when the test is true; a
\* TypeError or ValueError is caught and the loop continues.
GenericFilter(roots, e) ==
    LET Keep(r) == Check(e, r) = "true"
    IN  SelectSeq(roots, Keep)

\* One `for special_root in special_roots` block.  The test is outside any
\* try: an exception leaves verify_roots.  n counts the substitutions.
RECURSIVE AugmentFrom(_, _, _, _, _)
AugmentFrom(ver, e, specials, i, n) ==
    IF i > Len(specials)
    THEN [raised |-> FALSE, list |-> ver, n |-> n]
    ELSE LET c == Check(e, specials[i])
         IN  IF c \in {"TypeError", "ValueError"}
             THEN [raised |-> TRUE, list |-> ver, n |-> n + 1]
             ELSE IF c = "true" /\ specials[i] \notin Range(ver)
                  THEN AugmentFrom(Append(ver, specials[i]), e, specials, i + 1, n + 1)
                  ELSE AugmentFrom(ver, e, specials, i + 1, n + 1)

AugmentNoMembership(ver, e, specials) ==
    LET Pass(v) == Check(e, v) = "true"
    IN  [raised |-> FALSE, list |-> ver \o SelectSeq(specials, Pass), n |-> Len(specials)]

Augment(ver, e, specials) == AugmentFrom(ver, e, specials, 1, 0)

\* The special_roots lists.
AcosSpecialsOnlyOne == <<V1>>

AcosSpecials == <<V1, Vm1>>

AsinSpecials == <<V0, V1, Vm1>>

CotSpecials == <<V0, PosInf, NegInf>>

ArctanSpecials == <<V0>>

\* The substrings the four blocks look for in str(expr).
AcosPattern == {<<"a", "c", "o", "s">>}

AsinPattern == {<<"a", "s", "i", "n">>}

CotPattern == {<<"a", "r", "c", "c", "o", "t">>, <<"c", "o", "t">>}

ArctanPattern == {<<"a", "r", "c", "t", "a", "n">>}

HasPattern(e, pats) == \E p \in pats : Contains(ExprStr(e), p)

\* np.roots(coeffs).  The Gaussian integers the model looks for among the
\* roots, in the order it reports them.
GaussBox == <<V1, Vm1, VI, VmI, V0>>

\* non_zero = nonzero(ravel(p))[0]
NonZero(c) == {i \in 1..Len(c) : c[i] # 0}

MinOf(S) == CHOOSE m \in S : \A k \in S : m <= k

MaxOf(S) == CHOOSE m \in S : \A k \in S : k <= m

\* p[non_zero[0] : non_zero[-1] + 1]: leading and trailing zeros are cut off.
Stripped(c) == SubSeq(c, MinOf(NonZero(c)), MaxOf(NonZero(c)))

\* trailing_zeros = len(p) - non_zero[-1] - 1
TrailingZerosDropped(c) == 0

TrailingZeros(c) == Len(c) - MaxOf(NonZero(c))

\* The Gaussian integer a value of the model stands for.
GInt(v) == <<Round(v.re), Round(v.im)>>

\* Division of p (complex coefficients, highest degree first) by x - r: the
\* quotient's coefficients followed by the remainder.
RECURSIVE SynDiv(_, _, _, _)
SynDiv(p, r, i, acc) ==
    IF i > Len(p) THEN acc
    ELSE SynDiv(p, r, i + 1,
                Append(acc, IF i = 1 THEN p[1] ELSE CAdd(p[i], CMul(r, acc[i - 1]))))

\* A root that is no Gaussian integer of GaussBox.
OtherRoot(k) == [k |-> "other", re |-> k, im |-> 0]

\* eigvals of the companion matrix of p: len(p) - 1 values, the roots of p
\* with multiplicity.  Those in GaussBox are split off one at a time; the
\* roots of what is left are not computed.
RECURSIVE Eigvals(_)
Eigvals(p) ==
    IF Len(p) <= 1 THEN <<>>
    ELSE LET Rem(k) == SynDiv(p, GInt(GaussBox[k]), 1, <<>>)
             hits == {k \in 1..Len(GaussBox) : Rem(k)[Len(p)] = <<0, 0>>}
         IN  IF hits = {}
             THEN [k \in 1..(Len(p) - 1) |-> OtherRoot(k)]
             ELSE <<GaussBox[MinOf(hits)]>>
                    \o Eigvals(SubSeq(Rem(MinOf(hits)), 1, Len(p) - 1))

\* roots = hstack((roots, zeros(trailing_zeros))); an all-zero p gives [].
SolvePolynomial(c) ==
    IF NonZero(c) = {} THEN <<>>
    ELSE Eigvals([i \in 1..Len(Stripped(c)) |-> <<Stripped(c)[i], 0>>])
            \o [k \in 1..TrailingZeros(c) |-> V0]

VrStart ==
    /\ vrExpr \in Exprs
    /\ \/ /\ vrRoots \in SeqsUpTo(VerValues, MaxRoots)
          /\ vrVia = "direct"
       \/ /\ vrExpr \in PolyExprs
          /\ vrRoots = SolvePolynomial(Coeffs(vrExpr))
          /\ vrVia = "solve_polynomial"
    /\ vrOrig = vrRoots
    /\ vrPc = "enter"
    /\ vrVerified = <<>>
    /\ vrFirst = <<>>
    /\ vrNSubs = 0

VrInit == VrStart /\ NpIdle /\ PeIdle /\ RtIdle /\ TnIdle /\ TlIdle /\ UiIdle /\ HmIdle /\ OwIdle /\ LnIdle /\ FnIdle /\ NrIdle /\ PfIdle /\ LsIdle

\* verified_roots = []; the short-circuit test.
VrEnter ==
    /\ vrPc = "enter"
    /\ vrVerified' = <<>>
    /\ vrPc' = IF ShortCircuit(vrExpr) THEN "returned" ELSE "filter"
    /\ UNCHANGED <<vrExpr, vrRoots, vrOrig, vrVia, vrFirst, vrNSubs>>
    /\ UNCHANGED <<npVars, peVars, rtVars, tnVars, tlVars, uiVars, hmVars, owVars, lnVars, fnVars, nrVars, pfVars, lsVars>>

\* for root in roots: ...
VrFilter ==
    /\ vrPc = "filter"
    /\ vrVerified' = GenericFilter(vrRoots, vrExpr)
    /\ vrNSubs' = vrNSubs + Len(vrRoots)
    /\ vrPc' = "acos"
    /\ UNCHANGED <<vrExpr, vrRoots, vrOrig, vrVia, vrFirst>>
    /\ UNCHANGED <<npVars, peVars, rtVars, tnVars, tlVars, uiVars, hmVars, owVars, lnVars, fnVars, nrVars, pfVars, lsVars>>

\* if <pattern> in expr_str: for special_root in special_roots: ...
VrBlock(pc, pats, specials, next) ==
    /\ vrPc = pc
    /\ IF HasPattern(vrExpr, pats)
       THEN LET r == Augment(vrVerified, vrExpr, specials)
            IN  /\ vrVerified' = r.list
                /\ vrNSubs' = vrNSubs + r.n
                /\ vrPc' = IF r.raised THEN "raised" ELSE next
       ELSE /\ vrPc' = next
            /\ UNCHANGED <<vrVerified, vrNSubs>>
    /\ UNCHANGED <<vrExpr, vrRoots, vrOrig, vrVia, vrFirst>>
    /\ UNCHANGED <<npVars, peVars, rtVars, tnVars, tlVars, uiVars, hmVars, owVars, lnVars, fnVars, nrVars, pfVars, lsVars>>

VrAcos == VrBlock("acos", AcosPattern, AcosSpecials, "asin")

VrAsin == VrBlock("asin", AsinPattern, AsinSpecials, "cot")

VrCot == VrBlock("cot", CotPattern, CotSpecials, "arctan")

\* The last block; return verified_roots follows it.
VrArctan == VrBlock("arctan", ArctanPattern, ArctanSpecials, "returned")

\* verify_roots(verified_roots, expr, symbol): the result verified again.
VrAgain ==
    /\ vrPc = "returned"
    /\ vrVia # "verify_roots"
    /\ vrFirst' = vrVerified
    /\ vrRoots' = vrVerified
    /\ vrVia' = "verify_roots"
    /\ vrPc' = "enter"
    /\ vrVerified' = <<>>
    /\ vrNSubs' = 0
    /\ UNCHANGED <<vrExpr, vrOrig>>
    /\ UNCHANGED <<npVars, peVars, rtVars, tnVars, tlVars, uiVars, hmVars, owVars, lnVars, fnVars, nrVars, pfVars, lsVars>>

VrNext == VrEnter \/ VrFilter \/ VrAcos \/ VrAsin \/ VrCot \/ VrArctan \/ VrAgain

\* |N(expr.subs(symbol, v))| < tol, by the squared magnitude; false when the
\* substitution raises or gives no number.
MagBelowTol(e, v) ==
    LET r == Subs(e, v)
    IN  /\ r.k = "num"
        /\ Abs(r.re) < Tol
        /\ Abs(r.im) < Tol
        /\ r.re * r.re + r.im * r.im < Tol * Tol

SubsRaises(e, v) == Subs(e, v).k \in {"ValueError", "nan", "unevaluated"}

\* The expressions the short-circuit applies to.
VrShortCircuited == vrExpr \in ShortCircuitExprs

VrPastFilter == vrPc \in {"acos", "asin", "cot", "arctan", "returned"}

\* The candidates of the current call whose magnitude is below tol, in order.
VrPassing ==
    LET Keep(r) == MagBelowTol(vrExpr, r)
    IN  SelectSeq(vrRoots, Keep)

\* C3: when the short-circuit does not apply, the generic filter leaves in
\* verified_roots exactly the candidates whose magnitude is below tol, in
\* input order (the boundary blocks only append after them); a candidate whose
\* substitution raises is dropped and the ones after it are still processed.
Thm_C3 ==
    (~ VrShortCircuited /\ VrPastFilter) =>
        /\ Len(vrVerified) >= Len(VrPassing)
        /\ SubSeq(vrVerified, 1, Len(VrPassing)) = VrPassing
        /\ \A k \in 1..Len(vrRoots) :
            SubsRaises(vrExpr, vrRoots[k]) =>
                \A m \in 1..Len(VrPassing) : VrPassing[m] # vrRoots[k]

\* verify_roots returned; a candidate whose substitution raised was dropped
\* and the candidate after it was kept.
Wit_C3 ==
    /\ vrPc = "returned"
    /\ ~ VrShortCircuited
    /\ \E i, j \in 1..Len(vrRoots) :
        /\ i < j
        /\ SubsRaises(vrExpr, vrRoots[i])
        /\ vrRoots[i] \notin Range(vrVerified)
        /\ MagBelowTol(vrExpr, vrRoots[j])
        /\ vrVerified = <<vrRoots[j]>>

IsRealValue(v) == v.k = "num" /\ v.im = 0

VrFromSolvePolynomial == vrVia = "solve_polynomial" /\ vrPc = "returned"

\* C4 as stated: of the roots solve_polynomial returned for a polynomial with
\* real and complex roots, the verified list holds only the real ones.
CE_C4 == VrFromSolvePolynomial => \A k \in 1..Len(vrVerified) : IsRealValue(vrVerified[k])

\* C4 amended: the verified list holds every root solve_polynomial returned
\* whose magnitude is below tol, the non-real ones included, in the order
\* solve_polynomial gave them.
Thm_C4 ==
    VrFromSolvePolynomial =>
        /\ vrVerified = VrPassing
        /\ \A k \in 1..Len(vrRoots) :
            (~ IsRealValue(vrRoots[k]) /\ MagBelowTol(vrExpr, vrRoots[k]))
                => vrRoots[k] \in Range(vrVerified)

\* A polynomial with real and non-real roots was solved and verified: real and
\* non-real roots are both in the verified list.
Wit_C4 ==
    /\ VrFromSolvePolynomial
    /\ \E k \in 1..Len(vrVerified) : IsRealValue(vrVerified[k])
    /\ \E k \in 1..Len(vrVerified) : ~ IsRealValue(vrVerified[k])
    /\ \E k \in 1..Len(vrRoots) : ~ IsRealValue(vrRoots[k])

\* C5: verify_roots applied to what verify_roots returned returns it
\* unchanged, and does not raise.
Thm_C5 ==
    vrVia = "verify_roots" =>
        /\ vrPc # "raised"
        /\ vrPc = "returned" => vrVerified = vrFirst

\* The second call returned a list that holds a boundary value the first call
\* appended (it was no candidate) after a candidate the filter kept.
Wit_C5 ==
    /\ vrVia = "verify_roots"
    /\ vrPc = "returned"
    /\ Len(vrVerified) >= 2
    /\ vrVerified[1] \in Range(vrOrig)
    /\ \E k \in 1..Len(vrVerified) : vrVerified[k] \notin Range(vrOrig)

\* The short-circuit returned [] twice.
Wit_C5Empty ==
    /\ vrVia = "verify_roots"
    /\ vrPc = "returned"
    /\ VrShortCircuited
    /\ vrOrig # <<>>

\* exp(x) and a^x with a numeric base.
PureExponentials == {"exp(x)", "2**x"}

\* C6: for a pure exponential form verify_roots returns [] straight from the
\* short-circuit: no candidate is substituted, whatever the candidates.
Thm_C6 ==
    vrExpr \in PureExponentials =>
        /\ vrPc \in {"enter", "returned"}
        /\ vrVerified = <<>>
        /\ vrNSubs = 0

Wit_C6 ==
    /\ vrExpr \in PureExponentials
    /\ vrPc = "returned"
    /\ vrVia = "direct"
    /\ Len(vrRoots) = MaxRoots

\* The expressions whose text contains acos.
AcosExprs ==
    {"acos(x)", "acos(x) - pi", "(x + 1)*acos(x)", "(x + 1)*acos(x)/(x - 1)", "(x - 1)*acos(x)",
     "0**acos(x)"}

VrBoundaryRule(b) ==
    /\ MagBelowTol(vrExpr, b) => b \in Range(vrVerified)
    /\ ~ MagBelowTol(vrExpr, b) => b \notin Range(vrVerified)

CE_C8 ==
    (vrPc = "returned" /\ vrExpr = "atan(x)" /\ MagBelowTol(vrExpr, V0)) =>
        V0 \in Range(vrVerified)

SpecVerify == VrInit /\ [][VrNext]_vars

(***************************************************************************)
(* parse_expression (src/src/utils.py:81-106) with preprocess_expression   *)
(* (src/src/utils.py:62-78).  A text is the tuple of its characters.  The  *)
(* polynomials of the model have integer coefficients.                     *)
(***************************************************************************)

\* The characters U+2212 (minus sign) and U+00D7 (multiplication sign).
UMinus == "U+2212"

UTimes == "U+00D7"

\* The tab character.
Tab == "U+0009"

\* str.isalpha and str.isdigit on the characters of the model.
IsAlpha(c) ==
    c \in {"a", "b", "c", "d", "e", "f", "g", "h", "i", "j", "k", "l", "m", "n", "o",
           "p", "q", "r", "s", "t", "u", "v", "w", "x", "y", "z"}

IsDigit(c) == c \in {"0", "1", "2", "3", "4", "5", "6", "7", "8", "9"}

RECURSIVE ReplaceFirstOnly(_, _, _)
ReplaceFirstOnly(s, c, r) ==
    IF s = <<>> THEN <<>>
    ELSE IF Head(s) = c THEN r \o Tail(s)
    ELSE <<Head(s)>> \o ReplaceFirstOnly(Tail(s), c, r)

\* s.replace(c, r) for a one-character c.
RECURSIVE Replace(_, _, _)
Replace(s, c, r) ==
    IF s = <<>> THEN <<>>
    ELSE (IF Head(s) = c THEN r ELSE <<Head(s)>>) \o Replace(Tail(s), c, r)

RECURSIVE InsertStarsAfterDigitOnly(_, _)
InsertStarsAfterDigitOnly(s, i) ==
    IF i > Len(s) THEN <<>>
    ELSE (IF IsAlpha(s[i]) /\ i > 1 /\ IsDigit(s[i - 1])
          THEN <<"*", s[i]>>
          ELSE <<s[i]>>) \o InsertStarsAfterDigitOnly(s, i + 1)

\* The loop of preprocess_expression: a '*' goes before a letter that follows
\* a digit or a ')'.
RECURSIVE InsertStars(_, _)
InsertStars(s, i) ==
    IF i > Len(s) THEN <<>>
    ELSE (IF IsAlpha(s[i]) /\ i > 1 /\ (IsDigit(s[i - 1]) \/ s[i - 1] = ")")
          THEN <<"*", s[i]>>
          ELSE <<s[i]>>) \o InsertStars(s, i + 1)

preprocess_expression(expression) ==
    LET a == Replace(expression, UMinus, <<"-">>)
        b == Replace(a, UTimes, <<"*">>)
        c == Replace(b, " ", <<>>)
        d == Replace(c, "e", <<"e", "x", "p", "(", "1", ")">>)
    IN  InsertStars(d, 1)

\* s.split(c): the pieces between the occurrences of c.
RECURSIVE Split(_, _, _)
Split(s, c, cur) ==
    IF s = <<>> THEN <<cur>>
    ELSE IF Head(s) = c THEN <<cur>> \o Split(Tail(s), c, <<>>)
    ELSE Split(Tail(s), c, Append(cur, Head(s)))

JoinedSwapped(left, right) ==
    <<"(">> \o right \o <<")", " ", "-", " ", "(">> \o left \o <<")">>

\* f'({left}) - ({right})'
Joined(left, right) == <<"(">> \o left \o <<")", " ", "-", " ", "(">> \o right \o <<")">>

\* Expression trees as sympify builds them.
Sym(n) == [op |-> "sym", name |-> n, val |-> 0, args |-> <<>>]

Integer(v) == [op |-> "int", name |-> "", val |-> v, args |-> <<>>]

\* Rational(1, 2)
Half == [op |-> "rat", name |-> "1/2", val |-> 0, args |-> <<>>]

Add(a) == [op |-> "add", name |-> "", val |-> 0, args |-> a]

Mul(a) == [op |-> "mul", name |-> "", val |-> 0, args |-> a]

Pow(b, e) == [op |-> "pow", name |-> "", val |-> 0, args |-> <<b, e>>]

Fn(n, a) == [op |-> "fn", name |-> n, val |-> 0, args |-> <<a>>]

\* sympify could not parse the text (SympifyError, a ValueError).
SympifyError == [op |-> "SympifyError", name |-> "", val |-> 0, args |-> <<>>]

NoExpr == [op |-> "none", name |-> "", val |-> 0, args |-> <<>>]

\* The texts a user gives.
PeInputs ==
    { <<"x", "+", "2">>,
      <<"x", "+", "1", "+", "1">>,
      <<"e", "^", "y", "+", "1">>,
      <<"2", "*", "e", "^", "x", "+", "x">>,
      <<"s", "i", "n", "(", "x", "+", "1", ")", "+", "x">>,
      <<"l", "n", "(", "x", "+", "1", ")", "+", "x">>,
      <<"x", "^", "3", "+", "5", "*", "x", "+", "7", "*", "x", "^", "2", "+", "1", "0", "0">>,
      <<"x", "+", "y">>,
      <<"5">>,
      <<"3", "+", "4">>,
      <<"x", "-", "x">>,
      <<"x", "^", "8", "-", "3", "2">>,
      <<"2", "x", "+", "1">>,
      <<"x", "^", "2", " ", "=", " ", "1">>,
      <<"x", "^", "2", "-", "1", "=", "(", "x", "-", "1", ")", "*", "(", "x", "+", "1", ")">>,
      <<"(", "x", "+", "1", ")", "^", "2", "-", "x", "^", "2", "-", "2", "*", "x">>,
      <<"1", "/", "x">>,
      <<"x", UMinus, "1">>,
      <<"2", UTimes, "x">>,
      <<"x", "=", "1", "=", "1">>,
      <<"x", "*", "y", "-", "1">>,
      <<"x", "^", "x">>,
      <<"s", "i", "n", "(", "x", ")", "*", "c", "o", "s", "(", "y", ")">>,
      <<"x", "^", "0">>,
      <<"0", "*", "x">>,
      <<"x", "/", "x">>,
      <<"s", "q", "r", "t", "(", "x", ")">>,
      <<"3", "x", "^", "2", "+", "2", "x", "+", "1">>,
      <<"2", "*", "(", "x", "+", "1", ")", "x">>,
      <<"y", "^", "2", "-", "4">>,
      <<"x", "^", "2", "+", "y", "^", "2", "=", "1">>,
      <<"x", "+">>,
      <<"x", " ", "=", " ", "2">>,
      <<"x", "^", "2", " ", "=", " ", "x", "^", "2">>,
      <<"2", "x", " ", "=", " ", "4">>,
      <<"x">>,
      <<"x", "^", "2", "=", "1", "=", "0">>,
      <<"e">>,
      <<"2", "e">>,
      <<"e", "^", "e">>,
      <<"x", "^", "e">>,
      <<"s", "i", "n", "(", "e", "*", "x", ")">>,
      <<"e", "x", "p", "(", "x", ")">>,
      <<"x", Tab, "+", "1">>,
      <<"2", Tab, "x">>,
      <<"3", " ", "x">>,
      <<"x", "2">>,
      <<"2", "s", "i", "n", "(", "x", ")">> }

Sympify(s) ==
    CASE s = <<"x", "+", "2">> ->
            Add(<<Sym("x"), Integer(2)>>)
      [] s = <<"x", "+", "1", "+", "1">> ->
            Add(<<Sym("x"), Integer(2)>>)
      [] s = <<"e", "x", "p", "(", "1", ")", "^", "y", "+", "1">> ->
            Add(<<Fn("exp", Sym("y")), Integer(1)>>)
      [] s = <<"2", "*", "e", "x", "p", "(", "1", ")", "^", "x", "+", "x">> ->
            Add(<<Mul(<<Integer(2), Fn("exp", Sym("x"))>>), Sym("x")>>)
      [] s = <<"s", "i", "n", "(", "x", "+", "1", ")", "+", "x">> ->
            Add(<<Fn("sin", Add(<<Sym("x"), Integer(1)>>)), Sym("x")>>)
      [] s = <<"l", "n", "(", "x", "+", "1", ")", "+", "x">> ->
            Add(<<Fn("log", Add(<<Sym("x"), Integer(1)>>)), Sym("x")>>)
      [] s = <<"x", "^", "3", "+", "5", "*", "x", "+", "7", "*", "x", "^", "2", "+", "1", "0", "0">> ->
            Add(<<Pow(Sym("x"), Integer(3)), Mul(<<Integer(7), Pow(Sym("x"), Integer(2))>>), Mul(<<Integer(5), Sym("x")>>), Integer(100)>>)
      [] s = <<"x", "+", "y">> ->
            Add(<<Sym("x"), Sym("y")>>)
      [] s = <<"5">> ->
            Integer(5)
      [] s = <<"3", "+", "4">> ->
            Integer(7)
      [] s = <<"x", "-", "x">> ->
            Integer(0)
      [] s = <<"x", "^", "8", "-", "3", "2">> ->
            Add(<<Pow(Sym("x"), Integer(8)), Integer(-32)>>)
      [] s = <<"2", "*", "x", "+", "1">> ->
            Add(<<Mul(<<Integer(2), Sym("x")>>), Integer(1)>>)
      [] s = <<"(", "x", "^", "2", ")", " ", "-", " ", "(", "1", ")">> ->
            Add(<<Pow(Sym("x"), Integer(2)), Integer(-1)>>)
      [] s = <<"(", "x", "^", "2", "-", "1", ")", " ", "-", " ", "(", "(", "x", "-", "1", ")", "*", "(", "x", "+", "1", ")", ")">> ->
            Add(<<Pow(Sym("x"), Integer(2)), Integer(-1), Mul(<<Integer(-1), Add(<<Sym("x"), Integer(-1)>>), Add(<<Sym("x"), Integer(1)>>)>>)>>)
      [] s = <<"(", "x", "+", "1", ")", "^", "2", "-", "x", "^", "2", "-", "2", "*", "x">> ->
            Add(<<Pow(Add(<<Sym("x"), Integer(1)>>), Integer(2)), Mul(<<Integer(-1), Pow(Sym("x"), Integer(2))>>), Mul(<<Integer(-2), Sym("x")>>)>>)
      [] s = <<"1", "/", "x">> ->
            Pow(Sym("x"), Integer(-1))
      [] s = <<"x", "-", "1">> ->
            Add(<<Sym("x"), Integer(-1)>>)
      [] s = <<"2", "*", "x">> ->
            Mul(<<Integer(2), Sym("x")>>)
      [] s = <<"x", "*", "y", "-", "1">> ->
            Add(<<Mul(<<Sym("x"), Sym("y")>>), Integer(-1)>>)
      [] s = <<"x", "^", "x">> ->
            Pow(Sym("x"), Sym("x"))
      [] s = <<"s", "i", "n", "(", "x", ")", "*", "c", "o", "s", "(", "y", ")">> ->
            Mul(<<Fn("sin", Sym("x")), Fn("cos", Sym("y"))>>)
      [] s = <<"x", "^", "0">> ->
            Integer(1)
      [] s = <<"0", "*", "x">> ->
            Integer(0)
      [] s = <<"x", "/", "x">> ->
            Integer(1)
      [] s = <<"s", "q", "r", "t", "(", "x", ")">> ->
            Pow(Sym("x"), Half)
      [] s = <<"3", "*", "x", "^", "2", "+", "2", "*", "x", "+", "1">> ->
            Add(<<Mul(<<Integer(3), Pow(Sym("x"), Integer(2))>>), Mul(<<Integer(2), Sym("x")>>), Integer(1)>>)
      [] s = <<"2", "*", "(", "x", "+", "1", ")", "*", "x">> ->
            Mul(<<Integer(2), Sym("x"), Add(<<Sym("x"), Integer(1)>>)>>)
      [] s = <<"y", "^", "2", "-", "4">> ->
            Add(<<Pow(Sym("y"), Integer(2)), Integer(-4)>>)
      [] s = <<"(", "x", "^", "2", "+", "y", "^", "2", ")", " ", "-", " ", "(", "1", ")">> ->
            Add(<<Pow(Sym("x"), Integer(2)), Pow(Sym("y"), Integer(2)), Integer(-1)>>)
      [] s = <<"x", "+">> ->
            SympifyError
      [] s = <<"(", "x", ")", " ", "-", " ", "(", "2", ")">> ->
            Add(<<Sym("x"), Integer(-2)>>)
      [] s = <<"(", "x", "^", "2", ")", " ", "-", " ", "(", "x", "^", "2", ")">> ->
            Integer(0)
      [] s = <<"(", "2", "*", "x", ")", " ", "-", " ", "(", "4", ")">> ->
            Add(<<Mul(<<Integer(2), Sym("x")>>), Integer(-4)>>)
      [] s = <<"x">> ->
            Sym("x")
      [] s = <<"e", "x", "p", "(", "1", ")">> ->
            Fn("exp", Integer(1))
      [] s = <<"2", "*", "e", "x", "p", "(", "1", ")">> ->
            Mul(<<Integer(2), Fn("exp", Integer(1))>>)
      [] s = <<"e", "x", "p", "(", "1", ")", "^", "e", "x", "p", "(", "1", ")">> ->
            Pow(Fn("exp", Integer(1)), Fn("exp", Integer(1)))
      [] s = <<"x", "^", "e", "x", "p", "(", "1", ")">> ->
            Pow(Sym("x"), Fn("exp", Integer(1)))
      [] s = <<"s", "i", "n", "(", "e", "x", "p", "(", "1", ")", "*", "x", ")">> ->
            Fn("sin", Mul(<<Fn("exp", Integer(1)), Sym("x")>>))
      [] s = <<"e", "x", "p", "(", "1", ")", "*", "x", "p", "(", "x", ")">> ->
            Mul(<<Fn("xp", Sym("x")), Fn("exp", Integer(1))>>)
      [] s = <<"x", Tab, "+", "1">> ->
            Add(<<Sym("x"), Integer(1)>>)
      [] s = <<"2", Tab, "x">> ->
            SympifyError
      [] s = <<"3", "*", "x">> ->
            Mul(<<Integer(3), Sym("x")>>)
      [] s = <<"x", "2">> ->
            Sym("x2")
      [] s = <<"2", "*", "s", "i", "n", "(", "x", ")">> ->
            Mul(<<Integer(2), Fn("sin", Sym("x"))>>)
      [] s = <<"(", "x", "^", "2", ")", "-", "(", "1", ")">> ->
            Add(<<Pow(Sym("x"), Integer(2)), Integer(-1)>>)
      [] s = <<"a", "b", "s", "(", "x", ")", "-", "1">> ->
            Add(<<Fn("Abs", Sym("x")), Integer(-1)>>)
      [] s = <<"2", "^", "x">> ->
            Pow(Integer(2), Sym("x"))

\* expr.free_symbols
RECURSIVE FreeSymbols(_)
FreeSymbols(t) ==
    IF t.op = "sym" THEN {t.name}
    ELSE UNION {FreeSymbols(t.args[i]) : i \in 1..Len(t.args)}

\* Polynomials in one variable: the coefficients, lowest degree first, with no
\* zero at the end; the zero polynomial is <<>>.
RECURSIVE Norm(_)
Norm(p) ==
    IF p = <<>> THEN <<>>
    ELSE IF p[Len(p)] = 0 THEN Norm(SubSeq(p, 1, Len(p) - 1))
    ELSE p

CoeffAt(p, i) == IF i \in 1..Len(p) THEN p[i] ELSE 0

PAdd(p, q) ==
    LET n == IF Len(p) > Len(q) THEN Len(p) ELSE Len(q)
    IN  Norm([i \in 1..n |-> CoeffAt(p, i) + CoeffAt(q, i)])

RECURSIVE Conv(_, _, _, _)
Conv(p, q, k, i) ==
    IF i > Len(p) THEN 0
    ELSE p[i] * CoeffAt(q, k - i + 1) + Conv(p, q, k, i + 1)

PMul(p, q) ==
    IF p = <<>> \/ q = <<>> THEN <<>>
    ELSE Norm([k \in 1..(Len(p) + Len(q) - 1) |-> Conv(p, q, k, 1)])

RECURSIVE PPow(_, _)
PPow(p, n) == IF n = 0 THEN <<1>> ELSE PMul(p, PPow(p, n - 1))

NotPolynomial == [ok |-> FALSE, p |-> <<>>]

IsPolynomial(p) == [ok |-> TRUE, p |-> p]

\* Poly(expr, symbol): the polynomial, or PolynomialError when the
\* expression is no polynomial in symbol (symbol inside a function, in an
\* exponent, or under a negative or fractional power).
RECURSIVE PolyOf(_, _)
RECURSIVE PolyFold(_, _, _, _)
PolyFold(args, x, i, isMul) ==
    IF i > Len(args) THEN IsPolynomial(IF isMul THEN <<1>> ELSE <<>>)
    ELSE LET h == PolyOf(args[i], x)
             r == PolyFold(args, x, i + 1, isMul)
         IN  IF ~ h.ok \/ ~ r.ok THEN NotPolynomial
             ELSE IsPolynomial(IF isMul THEN PMul(h.p, r.p) ELSE PAdd(h.p, r.p))

PolyOf(t, x) ==
    CASE t.op = "sym" /\ t.name = x -> IsPolynomial(<<0, 1>>)
      [] t.op = "int" -> IsPolynomial(Norm(<<t.val>>))
      [] t.op = "add" -> PolyFold(t.args, x, 1, FALSE)
      [] t.op = "mul" -> PolyFold(t.args, x, 1, TRUE)
      [] t.op = "pow" /\ t.args[2].op = "int" /\ t.args[2].val >= 0 ->
            LET b == PolyOf(t.args[1], x)
            IN  IF b.ok THEN IsPolynomial(PPow(b.p, t.args[2].val)) ELSE NotPolynomial
      [] t.op = "pow" /\ x \in FreeSymbols(t) -> NotPolynomial
      [] t.op = "fn" /\ x \in FreeSymbols(t) -> NotPolynomial

RECURSIVE Reverse(_)
Reverse(s) == IF s = <<>> THEN <<>> ELSE Append(Reverse(Tail(s)), Head(s))

\* poly.all_coeffs(): every coefficient, highest degree first; [0] for the
\* zero polynomial.
AllCoeffsLowestFirst(p) == IF p = <<>> THEN <<0>> ELSE p

AllCoeffs(p) == IF p = <<>> THEN <<0>> ELSE Reverse(p)

\* poly.degree(): -oo for the zero polynomial.
Degree(p) == IF p = <<>> THEN [finite |-> FALSE, n |-> 0] ELSE [finite |-> TRUE, n |-> Len(p) - 1]

\* len(symbols) != 1
WrongSymbolCountOnlyZero(n) == n = 0

WrongSymbolCount(n) == n # 1

\* What parse_expression returns as coeffs: a list, or None.
Unset == [none |-> TRUE, set |-> FALSE, list |-> <<>>]

NoneCoeffs == [none |-> TRUE, set |-> TRUE, list |-> <<>>]

CoeffList(l) == [none |-> FALSE, set |-> TRUE, list |-> l]

PeStart ==
    /\ peIn \in PeInputs
    /\ pePc = "preprocess"
    /\ peText = peIn
    /\ peExpr = NoExpr
    /\ peSymbol = "none"
    /\ peCoeffs = Unset
    /\ peIsPoly = "none"
    /\ peErr = "none"

PeInit == PeStart /\ NpIdle /\ VrIdle /\ RtIdle /\ TnIdle /\ TlIdle /\ UiIdle /\ HmIdle /\ OwIdle /\ LnIdle /\ FnIdle /\ NrIdle /\ PfIdle /\ LsIdle

\* expression = preprocess_expression(expression)
PePreprocess ==
    /\ pePc = "preprocess"
    /\ peText' = preprocess_expression(peText)
    /\ pePc' = "split"
    /\ UNCHANGED <<peIn, peExpr, peSymbol, peCoeffs, peIsPoly, peErr>>
    /\ UNCHANGED <<npVars, vrVars, rtVars, tnVars, tlVars, uiVars, hmVars, owVars, lnVars, fnVars, nrVars, pfVars, lsVars>>

\* if '=' in expression: left, right = expression.split('='); unpacking any
\* other number of pieces than two raises ValueError.
PeSplit ==
    /\ pePc = "split"
    /\ IF "=" \in Range(peText)
       THEN LET parts == Split(peText, "=", <<>>)
            IN  IF Len(parts) = 2
                THEN /\ peText' = Joined(parts[1], parts[2])
                     /\ pePc' = "symbols"
                     /\ UNCHANGED peErr
                ELSE /\ pePc' = "raised"
                     /\ peErr' = "ValueError: unpack"
                     /\ UNCHANGED peText
       ELSE /\ pePc' = "symbols"
            /\ UNCHANGED <<peText, peErr>>
    /\ UNCHANGED <<peIn, peExpr, peSymbol, peCoeffs, peIsPoly>>
    /\ UNCHANGED <<npVars, vrVars, rtVars, tnVars, tlVars, uiVars, hmVars, owVars, lnVars, fnVars, nrVars, pfVars, lsVars>>

\* symbols = list(sp.sympify(expression).free_symbols); the ValueError when
\* there is not exactly one; symbol = symbols[0]; expr = sp.sympify(expression)
PeSymbols ==
    /\ pePc = "symbols"
    /\ LET t == Sympify(peText)
       IN  IF t = SympifyError
           THEN /\ pePc' = "raised"
                /\ peErr' = "SympifyError"
                /\ UNCHANGED <<peExpr, peSymbol>>
           ELSE IF WrongSymbolCount(Cardinality(FreeSymbols(t)))
           THEN /\ pePc' = "raised"
                /\ peErr' = "ValueError: one variable"
                /\ peExpr' = t
                /\ UNCHANGED peSymbol
           ELSE /\ pePc' = "poly"
                /\ peExpr' = t
                /\ peSymbol' = CHOOSE n \in FreeSymbols(t) : TRUE
                /\ UNCHANGED peErr
    /\ UNCHANGED <<peIn, peText, peCoeffs, peIsPoly>>
    /\ UNCHANGED <<npVars, vrVars, rtVars, tnVars, tlVars, uiVars, hmVars, owVars, lnVars, fnVars, nrVars, pfVars, lsVars>>

\* try: poly = sp.Poly(expr, symbol); coeffs = poly.all_coeffs(); return
\* expr, symbol, coeffs, True; except sp.PolynomialError: return expr, symbol,
\* None, False
PePoly ==
    /\ pePc = "poly"
    /\ LET r == PolyOf(peExpr, peSymbol)
       IN  IF r.ok
           THEN /\ peCoeffs' = CoeffList(AllCoeffs(r.p))
                /\ peIsPoly' = TRUE
           ELSE /\ peCoeffs' = NoneCoeffs
                /\ peIsPoly' = FALSE
    /\ pePc' = "returned"
    /\ UNCHANGED <<peIn, peText, peExpr, peSymbol, peErr>>
    /\ UNCHANGED <<npVars, vrVars, rtVars, tnVars, tlVars, uiVars, hmVars, owVars, lnVars, fnVars, nrVars, pfVars, lsVars>>

PeNext == PePreprocess \/ PeSplit \/ PeSymbols \/ PePoly

\* The value of a polynomial expression at x = v.
RECURSIVE IntPow(_, _)
IntPow(b, n) == IF n = 0 THEN 1 ELSE b * IntPow(b, n - 1)

RECURSIVE EvalAt(_, _)
RECURSIVE EvalFold(_, _, _, _)
EvalFold(args, v, i, isMul) ==
    IF i > Len(args) THEN (IF isMul THEN 1 ELSE 0)
    ELSE IF isMul THEN EvalAt(args[i], v) * EvalFold(args, v, i + 1, isMul)
    ELSE EvalAt(args[i], v) + EvalFold(args, v, i + 1, isMul)

EvalAt(t, v) ==
    CASE t.op = "sym" -> v
      [] t.op = "int" -> t.val
      [] t.op = "add" -> EvalFold(t.args, v, 1, FALSE)
      [] t.op = "mul" -> EvalFold(t.args, v, 1, TRUE)
      [] t.op = "pow" -> IntPow(EvalAt(t.args[1], v), t.args[2].val)

\* c[1]*v^(n-1) + ... + c[n]: the value at v of the polynomial whose
\* coefficients, highest degree first, are c.
RECURSIVE HornerInt(_, _, _, _)
HornerInt(c, v, i, acc) ==
    IF i > Len(c) THEN acc ELSE HornerInt(c, v, i + 1, acc * v + c[i])

EvalPoints == {-2, -1, 0, 1, 2, 3}

PeParsed == pePc \in {"poly", "returned"} \/ (pePc = "raised" /\ peErr = "ValueError: one variable")

PeOneVariableError == pePc = "raised" /\ peErr = "ValueError: one variable"

\* C9: once the text is parsed, parse_expression raises the 'exactly one
\* variable' ValueError when the expression has no free symbol or more than
\* one, and goes on without raising it when the expression has exactly one.
Thm_C9 ==
    /\ PeParsed => (PeOneVariableError <=> Cardinality(FreeSymbols(peExpr)) # 1)
    /\ PeOneVariableError => PeParsed

\* A parsed expression with two free symbols raised the error.
Wit_C9 ==
    /\ PeOneVariableError
    /\ Cardinality(FreeSymbols(peExpr)) = 2

\* A parsed expression that cancels to a constant raised the error.
Wit_C9Zero ==
    /\ PeOneVariableError
    /\ FreeSymbols(peExpr) = {}
    /\ "x" \in Range(peIn)

PeHighestFirst ==
    \A v \in EvalPoints : HornerInt(peCoeffs.list, v, 1, 0) = EvalAt(peExpr, v)

PeDegree == Degree(PolyOf(peExpr, peSymbol).p)

PeReturnedShape ==
    /\ peIsPoly \in BOOLEAN
    /\ peCoeffs.set
    /\ peCoeffs.none <=> (peIsPoly = FALSE)
    /\ peErr = "none"
    /\ Cardinality(FreeSymbols(peExpr)) = 1

\* C10 as stated: the coefficient list of a polynomial has length degree + 1.
CE_C10 ==
    pePc = "returned" =>
        /\ PeReturnedShape
        /\ peIsPoly = TRUE =>
            /\ PeHighestFirst
            /\ PeDegree.finite
            /\ Len(peCoeffs.list) = PeDegree.n + 1

\* C10 amended: parse_expression returns is_polynomial true with the
\* coefficients highest degree first, or false with None; coeffs is None
\* exactly when is_polynomial is false; the list has degree + 1 entries when
\* the polynomial is not the zero polynomial and is [0] when it is;
\* PolynomialError never leaves parse_expression.
Thm_C10 ==
    /\ peErr \in {"none", "ValueError: unpack", "SympifyError", "ValueError: one variable"}
    /\ pePc = "returned" =>
        /\ PeReturnedShape
        /\ peIsPoly = TRUE =>
            /\ PeHighestFirst
            /\ IF PeDegree.finite
               THEN Len(peCoeffs.list) = PeDegree.n + 1 /\ peCoeffs.list[1] # 0
               ELSE peCoeffs.list = <<0>>
        /\ peIsPoly = FALSE => ~ PolyOf(peExpr, peSymbol).ok

\* A polynomial of degree 3 given out of order came back highest degree first.
Wit_C10 ==
    /\ pePc = "returned"
    /\ peIsPoly = TRUE
    /\ peCoeffs = CoeffList(<<1, 7, 5, 100>>)

\* The zero polynomial came back as [0].
Wit_C10Zero ==
    /\ pePc = "returned"
    /\ peIsPoly = TRUE
    /\ ~ PeDegree.finite

\* A transcendental expression came back with None.
Wit_C10None ==
    /\ pePc = "returned"
    /\ peIsPoly = FALSE
    /\ peCoeffs = NoneCoeffs

\* The text preprocess_expression gives for the argument.
PePre == preprocess_expression(peIn)

\* Where the preprocessed text has an '='.
PeEqualsAt == {i \in 1..Len(PePre) : PePre[i] = "="}

PeBeforeFirstEquals == SubSeq(PePre, 1, MinOf(PeEqualsAt) - 1)

PeAfterFirstEquals == SubSeq(PePre, MinOf(PeEqualsAt) + 1, Len(PePre))

PeRewritten ==
    peText = <<"(">> \o PeBeforeFirstEquals \o <<")", " ", "-", " ", "(">>
                \o PeAfterFirstEquals \o <<")">>

PePastSplit == pePc \notin {"preprocess", "split"}

PeUnpackError == pePc = "raised" /\ peErr = "ValueError: unpack"

\* C12 as stated: a text with an '=' is rewritten as (left) - (right), left
\* the part before the first '=' and right everything after it, however many
\* '=' there are.
CE_C12 ==
    (PePastSplit /\ PeEqualsAt # {}) => (PeRewritten /\ ~ PeUnpackError)

\* C12 amended: a text with exactly one '=' is rewritten as (left) - (right);
\* a text with more than one '=' makes parse_expression raise ValueError from
\* the unpacking of the split and nothing is rewritten; a text without '=' is
\* left as it is.
Thm_C12 ==
    PePastSplit =>
        /\ Cardinality(PeEqualsAt) = 1 => (PeRewritten /\ ~ PeUnpackError)
        /\ Cardinality(PeEqualsAt) > 1 => (PeUnpackError /\ peText = PePre)
        /\ PeEqualsAt = {} => (peText = PePre /\ ~ PeUnpackError)

\* An equation with both sides non-trivial was rewritten.
Wit_C12 ==
    /\ pePc = "symbols"
    /\ Cardinality(PeEqualsAt) = 1
    /\ PeRewritten
    /\ Len(PeBeforeFirstEquals) > 1
    /\ Len(PeAfterFirstEquals) > 1

\* A text with two '=' raised.
Wit_C12Two ==
    /\ PeUnpackError
    /\ Cardinality(PeEqualsAt) = 2

CountOf(s, c) == Cardinality({i \in 1..Len(s) : s[i] = c})

\* Every e of the text s starts an exp(1).
EveryEIsExp1(s) ==
    \A i \in 1..Len(s) :
        s[i] = "e" =>
            /\ i + 5 <= Len(s)
            /\ SubSeq(s, i + 1, i + 5) = <<"x", "p", "(", "1", ")">>

\* C13: preprocess_expression turns every e of its input into exp(1), and the
\* expression parsed from the result never has e among its free symbols.
Thm_C13 ==
    /\ pePc = "split" =>
        /\ EveryEIsExp1(peText)
        /\ CountOf(peText, "e") = CountOf(peIn, "e")
        /\ CountOf(peText, "1") = CountOf(peIn, "1") + CountOf(peIn, "e")
    /\ PeParsed => "e" \notin FreeSymbols(peExpr)

\* e^y+1 was parsed with the one free symbol y.
Wit_C13 ==
    /\ pePc = "poly"
    /\ peIn = <<"e", "^", "y", "+", "1">>
    /\ FreeSymbols(peExpr) = {"y"}
    /\ peSymbol = "y"

\* A text with two e was preprocessed.
Wit_C13Two ==
    /\ pePc = "split"
    /\ CountOf(peIn, "e") = 2
    /\ EveryEIsExp1(peText)

\* The text the loop of preprocess_expression scans: the argument after the
\* four replacements.
PeScanned ==
    Replace(Replace(Replace(Replace(peIn, UMinus, <<"-">>), UTimes, <<"*">>), " ", <<>>),
            "e", <<"e", "x", "p", "(", "1", ")">>)

\* The positions of the scanned text where a letter follows a digit or ')'.
PeStarSites ==
    {i \in 2..Len(PeScanned) :
        /\ IsAlpha(PeScanned[i])
        /\ IsDigit(PeScanned[i - 1]) \/ PeScanned[i - 1] = ")"}

\* Where position i of the scanned text is in the output.
PeShifted(i) == i + Cardinality({j \in PeStarSites : j <= i})

\* C14: the output of preprocess_expression is the scanned text with one '*'
\* put in front of each letter that directly follows a digit or ')', and
\* nothing else changed.
Thm_C14 ==
    pePc = "split" =>
        /\ Len(peText) = Len(PeScanned) + Cardinality(PeStarSites)
        /\ \A i \in 1..Len(PeScanned) : peText[PeShifted(i)] = PeScanned[i]
        /\ \A j \in PeStarSites : peText[PeShifted(j) - 1] = "*"

\* A '*' went in after a ')', in a text with a '*' the user wrote.
Wit_C14 ==
    /\ pePc = "split"
    /\ \E j \in PeStarSites : PeScanned[j - 1] = ")"
    /\ "*" \in Range(PeScanned)

\* A '*' went in before the exp(1) that stands for an e after a digit.
Wit_C14E ==
    /\ pePc = "split"
    /\ peIn = <<"2", "e">>
    /\ peText = <<"2", "*", "e", "x", "p", "(", "1", ")">>

\* The whitespace characters of the model's texts.
Whitespace == {" ", Tab}

\* C15 as stated: the output of preprocess_expression holds no whitespace
\* character of any kind.
CE_C15 ==
    pePc = "split" => \A i \in 1..Len(peText) : peText[i] \notin Whitespace

SpecParse == PeInit /\ [][PeNext]_vars

(***************************************************************************)
(* solve_polynomial (src/src/solver.py:145-152): np.roots on a coefficient *)
(* list, highest degree first.                                             *)
(***************************************************************************)

\* The longest coefficient list.
MaxCoeffs == 4

CoeffValues == {-2, -1, 0, 1, 2}

RtStart ==
    /\ rtCoeffs \in UNION {[1..k -> CoeffValues] : k \in 1..MaxCoeffs}
    /\ rtPc = "call"
    /\ rtRoots = <<>>

RtInit == RtStart /\ NpIdle /\ VrIdle /\ PeIdle /\ TnIdle /\ TlIdle /\ UiIdle /\ HmIdle /\ OwIdle /\ LnIdle /\ FnIdle /\ NrIdle /\ PfIdle /\ LsIdle

\* roots = np.roots(coeffs); return roots
RtSolve ==
    /\ rtPc = "call"
    /\ rtRoots' = SolvePolynomial(rtCoeffs)
    /\ rtPc' = "returned"
    /\ UNCHANGED rtCoeffs
    /\ UNCHANGED <<npVars, vrVars, peVars, tnVars, tlVars, uiVars, hmVars, owVars, lnVars, fnVars, nrVars, pfVars, lsVars>>

RtNext == RtSolve

\* The degree of the polynomial a coefficient list stands for: the number of
\* coefficients after the first non-zero one.
RtDegree == Len(rtCoeffs) - MinOf(NonZero(rtCoeffs))

\* The derivative's coefficients.
Derivative(c) == [i \in 1..(Len(c) - 1) |-> c[i] * (Len(c) - i)]

\* v is a root of c of multiplicity m exactly: c and its first m - 1
\* derivatives vanish at v, the m-th does not.
RECURSIVE MultiplicityAt(_, _)
MultiplicityAt(c, v) ==
    IF Len(c) = 0 \/ PolyAt(c, v) # V0 THEN 0
    ELSE 1 + MultiplicityAt(Derivative(c), v)

RtCount(v) == Cardinality({k \in 1..Len(rtRoots) : rtRoots[k] = v})

\* C11: solve_polynomial returns as many roots as the degree, counted with
\* multiplicity, for a coefficient list of degree at least 1 (len(coeffs) - 1
\* when the leading coefficient is not zero), and no root for a list of one
\* constant.
Thm_C11 ==
    rtPc = "returned" =>
        /\ (NonZero(rtCoeffs) # {} /\ RtDegree >= 1) => Len(rtRoots) = RtDegree
        /\ (Len(rtCoeffs) >= 2 /\ rtCoeffs[1] # 0) => Len(rtRoots) = Len(rtCoeffs) - 1
        /\ Len(rtCoeffs) = 1 => rtRoots = <<>>
        /\ NonZero(rtCoeffs) # {} =>
            \A k \in 1..Len(GaussBox) :
                RtCount(GaussBox[k]) = MultiplicityAt(rtCoeffs, GaussBox[k])

\* x^3 - 2 x^2 + x: the double root 1 is returned twice and the root 0 comes
\* from the trailing zero coefficient.
Wit_C11 ==
    /\ rtPc = "returned"
    /\ rtCoeffs = <<1, -2, 1, 0>>
    /\ rtRoots = <<V1, V1, V0>>

\* A list of one constant gave no root.
Wit_C11Constant ==
    /\ rtPc = "returned"
    /\ rtCoeffs = <<2>>
    /\ rtRoots = <<>>

SpecRoots == RtInit /\ [][RtNext]_vars

(***************************************************************************)
(* test_nonlinear_solution (src/src/solver.py:322-334).  The dict results  *)
(* is the sequence of its entries in insertion order; an entry is a key    *)
(* and a value.                                                            *)
(***************************************************************************)

\* The longest list of solutions.
MaxSolutions == 2

\* The roots a caller passes: gui.py:973 passes the list verify_roots
\* returned, which holds no nan.
TnValues == {V0, V1, Vm1, VEdge, VI}

\* d[key] = val: a new key is added at the end, a key the dict has keeps its
\* place and gets the new value.
DictSetAlwaysAppend(d, key, val) == Append(d, [key |-> key, val |-> val])

DictSet(d, key, val) ==
    IF \E k \in 1..Len(d) : d[k].key = key
    THEN [k \in 1..Len(d) |-> IF d[k].key = key THEN [key |-> key, val |-> val] ELSE d[k]]
    ELSE Append(d, [key |-> key, val |-> val])

TnStart ==
    /\ tnExpr \in Exprs
    /\ tnSolutions \in SeqsUpTo(TnValues, MaxSolutions)
    /\ tnGiven = tnSolutions
    /\ tnI = 1
    /\ tnResults = <<>>
    /\ tnPc = "running"

TnInit == TnStart /\ NpIdle /\ VrIdle /\ PeIdle /\ RtIdle /\ TlIdle /\ UiIdle /\ HmIdle /\ OwIdle /\ LnIdle /\ FnIdle /\ NrIdle /\ PfIdle /\ LsIdle

\* results[sol] = abs(sp.N(expr.subs(symbol, sol))) < tol
TnIterate ==
    /\ tnPc = "running"
    /\ tnI <= Len(tnSolutions)
    /\ Check(tnExpr, tnSolutions[tnI]) \in {"true", "false"}
    /\ tnResults' = DictSet(tnResults, tnSolutions[tnI], Check(tnExpr, tnSolutions[tnI]) = "true")
    /\ tnI' = tnI + 1
    /\ UNCHANGED <<tnExpr, tnSolutions, tnGiven, tnPc>>
    /\ UNCHANGED <<npVars, vrVars, peVars, rtVars, tlVars, uiVars, hmVars, owVars, lnVars, fnVars, nrVars, pfVars, lsVars>>

\* The comparison is in no try: its exception leaves the function.
TnRaise ==
    /\ tnPc = "running"
    /\ tnI <= Len(tnSolutions)
    /\ Check(tnExpr, tnSolutions[tnI]) \in {"TypeError", "ValueError"}
    /\ tnPc' = "raised"
    /\ UNCHANGED <<tnExpr, tnSolutions, tnGiven, tnI, tnResults>>
    /\ UNCHANGED <<npVars, vrVars, peVars, rtVars, tlVars, uiVars, hmVars, owVars, lnVars, fnVars, nrVars, pfVars, lsVars>>

\* return results
TnReturn ==
    /\ tnPc = "running"
    /\ tnI > Len(tnSolutions)
    /\ tnPc' = "returned"
    /\ UNCHANGED <<tnExpr, tnSolutions, tnGiven, tnI, tnResults>>
    /\ UNCHANGED <<npVars, vrVars, peVars, rtVars, tlVars, uiVars, hmVars, owVars, lnVars, fnVars, nrVars, pfVars, lsVars>>

TnNext == TnIterate \/ TnRaise \/ TnReturn

TnKeys == {tnResults[k].key : k \in 1..Len(tnResults)}

TnEntriesRight ==
    /\ \A i \in 1..Len(tnSolutions) :
        \E k \in 1..Len(tnResults) :
            /\ tnResults[k].key = tnSolutions[i]
            /\ tnResults[k].val = MagBelowTol(tnExpr, tnSolutions[i])
    /\ TnKeys = Range(tnSolutions)
    /\ tnSolutions = tnGiven

\* C19 as stated: every root has an entry that is true exactly when the
\* magnitude is below tol, there are as many entries as roots in the list,
\* and the list is not modified.
CE_C19 ==
    tnPc = "returned" =>
        /\ TnEntriesRight
        /\ Len(tnResults) = Len(tnSolutions)

\* C19 amended: every root has an entry that is true exactly when the
\* magnitude is below tol, there is one entry per distinct root (equal roots
\* share one), and the list is not modified.
Thm_C19 ==
    tnPc = "returned" =>
        /\ TnEntriesRight
        /\ Len(tnResults) = Cardinality(Range(tnSolutions))

\* Two different roots, one passing and one failing.
Wit_C19 ==
    /\ tnPc = "returned"
    /\ Len(tnResults) = 2
    /\ tnResults[1].val = TRUE
    /\ tnResults[2].val = FALSE

\* The same root twice gave one entry.
Wit_C19Twice ==
    /\ tnPc = "returned"
    /\ Len(tnSolutions) = 2
    /\ Len(tnResults) = 1
    /\ tnResults[1].val = TRUE

SpecTestNonlinear == TnInit /\ [][TnNext]_vars

(***************************************************************************)
(* test_linear_solution (src/src/solver.py:337-350).  Coefficients are     *)
(* whole numbers; constants, solution values and tol are in units of 1e-7. *)
(* The arguments have the shape gui.py:940 passes: every row as long as    *)
(* the solution, one constant per row.                                     *)
(***************************************************************************)

\* The most equations, and the most unknowns.
MaxRows == 2
MaxUnknowns == 2

TlCoeffValues == {-1, 0, 1}
TlConstValues == {0, One}
TlSolValues == {0, One, One + Tol}

\* zip(a, b): as many pairs as the shorter list has entries.
Zip(a, b) == [k \in 1..(IF Len(a) < Len(b) THEN Len(a) ELSE Len(b)) |-> <<a[k], b[k]>>]

RECURSIVE SumProducts(_)
SumProducts(pairs) ==
    IF pairs = <<>> THEN 0
    ELSE pairs[1][1] * pairs[1][2] + SumProducts(Tail(pairs))

\* sum(coeff * sol for coeff, sol in zip(row, solutions))
EquationValue(row, solutions) == SumProducts(Zip(row, solutions))

\* abs(equation_value - const) < tol
EquationHoldsNotStrict(row, const, solutions) == Abs(EquationValue(row, solutions) - const) <= Tol

EquationHolds(row, const, solutions) == Abs(EquationValue(row, solutions) - const) < Tol

TlStart ==
    /\ \E r \in 0..MaxRows, n \in 1..MaxUnknowns :
        /\ tlCoefficients \in [1..r -> [1..n -> TlCoeffValues]]
        /\ tlConstants \in [1..r -> TlConstValues]
        /\ tlSolutions \in [1..n -> TlSolValues]
    /\ tlGiven = <<tlCoefficients, tlConstants, tlSolutions>>
    /\ tlI = 1
    /\ tlResults = <<>>
    /\ tlPc = "running"

TlInit == TlStart /\ NpIdle /\ VrIdle /\ PeIdle /\ RtIdle /\ TnIdle /\ UiIdle /\ HmIdle /\ OwIdle /\ LnIdle /\ FnIdle /\ NrIdle /\ PfIdle /\ LsIdle

\* One turn of the loop over enumerate(zip(coefficients, constants)).
TlIterate ==
    /\ tlPc = "running"
    /\ tlI <= Len(Zip(tlCoefficients, tlConstants))
    /\ LET pair == Zip(tlCoefficients, tlConstants)[tlI]
       IN  tlResults' = DictSet(tlResults, tlI, EquationHolds(pair[1], pair[2], tlSolutions))
    /\ tlI' = tlI + 1
    /\ UNCHANGED <<tlCoefficients, tlConstants, tlSolutions, tlGiven, tlPc>>
    /\ UNCHANGED <<npVars, vrVars, peVars, rtVars, tnVars, uiVars, hmVars, owVars, lnVars, fnVars, nrVars, pfVars, lsVars>>

\* return results
TlReturn ==
    /\ tlPc = "running"
    /\ tlI > Len(Zip(tlCoefficients, tlConstants))
    /\ tlPc' = "returned"
    /\ UNCHANGED <<tlCoefficients, tlConstants, tlSolutions, tlGiven, tlI, tlResults>>
    /\ UNCHANGED <<npVars, vrVars, peVars, rtVars, tnVars, uiVars, hmVars, owVars, lnVars, fnVars, nrVars, pfVars, lsVars>>

TlNext == TlIterate \/ TlReturn

\* |row . solution - const| of row i, with the dot product written out.
TlResidual(i) ==
    Abs(tlCoefficients[i][1] * tlSolutions[1]
        + (IF Len(tlSolutions) >= 2 THEN tlCoefficients[i][2] * tlSolutions[2] ELSE 0)
        + (IF Len(tlSolutions) >= 3 THEN tlCoefficients[i][3] * tlSolutions[3] ELSE 0)
        - tlConstants[i])

\* C20: the result has one entry per equation row, keyed 1, 2, ... in row
\* order; entry i is true exactly when |row i . solution - constant i| is
\* strictly below tol; the three arguments are as they were at the call.
Thm_C20 ==
    tlPc = "returned" =>
        /\ Len(tlResults) = Len(tlCoefficients)
        /\ \A i \in 1..Len(tlCoefficients) :
            /\ tlResults[i].key = i
            /\ tlResults[i].val = (TlResidual(i) < Tol)
        /\ <<tlCoefficients, tlConstants, tlSolutions>> = tlGiven

\* Two rows, the first holding and the second off by exactly tol.
Wit_C20 ==
    /\ tlPc = "returned"
    /\ Len(tlResults) = 2
    /\ tlResults[1].val = TRUE
    /\ tlResults[2].val = FALSE
    /\ TlResidual(2) = Tol

SpecTestLinear == TlInit /\ [][TlNext]_vars

(***************************************************************************)
(* EquationSolverApp.solve and EquationSolverApp.test_solution             *)
(* (src/src/gui.py:523-694, 887-988) with the HistoryManager they write    *)
(* to.  Each handler is one action.  A message of the output box is its    *)
(* text and its tag; the texts are named in English, the source's text is  *)
(* in the comment.                                                         *)
(***************************************************************************)

\* The most records the history holds in the model.
MaxHistory == 2

\* Points of a seed grid; the handlers ask for 50.
GridN == 4

\* The texts of the equation box, line by line.
UiTexts ==
    { <<"x", "^", "2", " ", "=", " ", "1">>,
      <<"x", UMinus, "1">>,
      <<"a", "b", "s", "(", "x", ")", " ", "-", " ", "1">>,
      <<"2", "^", "x">>,
      <<"e", "x", "p", "(", "x", ")">>,
      <<"x", "+", "y">>,
      <<"x", "+">>,
      <<"x", "=", "1", "=", "1">> }

\* equations_text.strip().splitlines(): no line, one line, or two.
UiLines ==
    {<<>>} \cup {<<t>> : t \in UiTexts}
        \cup { << <<"x", UMinus, "1">>, <<"2", "^", "x">> >>,
               << <<"x", UMinus, "1">>, <<"x", "+">> >> }

\* What the entry grids hold in the linear and the matrix mode.
UiLinearInputs == {"empty", "not a number", "no solution", "unique", "infinite"}

UiMatrixInputs == {"empty", "raises", "computes"}

UiRequests ==
    {[mode |-> "nonlinear", lines |-> l, entries |-> "none"] : l \in UiLines}
        \cup {[mode |-> "linear", lines |-> <<>>, entries |-> c] : c \in UiLinearInputs}
        \cup {[mode |-> "matrix", lines |-> <<>>, entries |-> c] : c \in UiMatrixInputs}

\* A message: insert(tk.END, text) has no tag, insert(tk.END, text, "error")
\* has the tag "error".  prefix: the text starts with "错误: ".
Info(body) == [prefix |-> FALSE, body |-> body, tag |-> "none"]

ErrorMsg(body) == [prefix |-> TRUE, body |-> body, tag |-> "error"]

\* HistoryManager.history, its three lists.
EmptyHistory == [nonlinear |-> <<>>, linear |-> <<>>, matrix |-> <<>>]

Record(expression, msg, roots) == [expression |-> expression, msg |-> msg, roots |-> roots]

\* add_record: the record goes in at index 0 of the list of its type.
add_record(history, type, rec) == [history EXCEPT ![type] = <<rec>> \o @]

HistorySize(h) == Len(h.nonlinear) + Len(h.linear) + Len(h.matrix)

\* str(expr) of a parsed expression: its name in the catalogue of verify_roots.
Str(t) ==
    CASE t = Add(<<Pow(Sym("x"), Integer(2)), Integer(-1)>>) -> "x**2 - 1"
      [] t = Add(<<Sym("x"), Integer(-1)>>) -> "x - 1"
      [] t = Add(<<Fn("Abs", Sym("x")), Integer(-1)>>) -> "Abs(x) - 1"
      [] t = Pow(Integer(2), Sym("x")) -> "2**x"
      [] t = Mul(<<Fn("xp", Sym("x")), Fn("exp", Integer(1))>>) -> "E*xp(x)"

\* parse_expression as a function of its text: the error it raises, or what
\* it returns.
Parsed(err, t, coeffs, isPoly) == [err |-> err, expr |-> t, coeffs |-> coeffs, isPoly |-> isPoly]

ParseExpression(text) ==
    LET pre == preprocess_expression(text)
        parts == Split(pre, "=", <<>>)
    IN  IF "=" \in Range(pre) /\ Len(parts) # 2
        THEN Parsed("ValueError: unpack", NoExpr, <<>>, FALSE)
        ELSE LET t == Sympify(IF "=" \in Range(pre) THEN Joined(parts[1], parts[2]) ELSE pre)
             IN  IF t = SympifyError
                 THEN Parsed("SympifyError", NoExpr, <<>>, FALSE)
                 ELSE IF WrongSymbolCount(Cardinality(FreeSymbols(t)))
                 THEN Parsed("ValueError: one variable", NoExpr, <<>>, FALSE)
                 ELSE LET r == PolyOf(t, CHOOSE n \in FreeSymbols(t) : TRUE)
                      IN  IF r.ok THEN Parsed("none", t, AllCoeffs(r.p), TRUE)
                          ELSE Parsed("none", t, <<>>, FALSE)

\* The loop of solve over the lines (gui.py:659-665): the line is split and
\* joined first and preprocessed after; the error of the first line that
\* raises, "none" when every line gives an expression.
LineError(line) ==
    LET parts == Split(line, "=", <<>>)
    IN  IF "=" \in Range(line) /\ Len(parts) # 2 THEN "ValueError: unpack"
        ELSE IF Sympify(preprocess_expression(
                    IF "=" \in Range(line) THEN Joined(parts[1], parts[2]) ELSE line)) = SympifyError
        THEN "SympifyError"
        ELSE "none"

RECURSIVE LinesError(_)
LinesError(lines) ==
    IF lines = <<>> THEN "none"
    ELSE IF LineError(Head(lines)) # "none" THEN LineError(Head(lines))
    ELSE LinesError(Tail(lines))

\* generate_initial_guesses(n, range_min, range_max): np.linspace, n points
\* from range_min to range_max, both included.
generate_initial_guesses(n, range_min, range_max) ==
    [k \in 1..n |-> range_min + ((k - 1) * (range_max - range_min)) \div (n - 1)]

\* The two calls: solve asks for -10..10 (gui.py:674), test_solution for
\* 0.1..10 (gui.py:966).
SolveGuesses == generate_initial_guesses(GridN, -10 * One, 10 * One)

TestGuesses == generate_initial_guesses(GridN, One \div 10, 10 * One)

\* A value far to the left, where 2**x is below every tolerance.
FarLeft == -200 * One

\* fsolve(func, guess) on the lambdified expression.  |x| - 1 is linear on
\* each side of 0: the first step from a guess lands on the root of that
\* side.  2**x has no zero: the iteration runs off to the left and stops
\* there.  xp is no function numpy has: calling func raises NameError.
Fsolve(e, guess) ==
    CASE e = "Abs(x) - 1" -> Value(IF guess >= 0 THEN One ELSE -One)
      [] e = "2**x" -> Unconverged(FarLeft)
      [] e = "E*xp(x)" -> Raise("NameError")

\* solve_nonpolynomial as a function of what fsolve does at each guess.
RECURSIVE SolveNonpolynomialFrom(_, _, _)
SolveNonpolynomialFrom(outs, i, roots) ==
    IF i > Len(outs) THEN [raised |-> "none", roots |-> roots]
    ELSE IF Returned(outs[i])
         THEN IF \E k \in 1..Len(roots) : IsClose(outs[i].v, roots[k])
              THEN SolveNonpolynomialFrom(outs, i + 1, roots)
              ELSE SolveNonpolynomialFrom(outs, i + 1, Append(roots, outs[i].v))
    ELSE IF outs[i].kind \in Swallowed
         THEN SolveNonpolynomialFrom(outs, i + 1, roots)
    ELSE [raised |-> outs[i].kind, roots |-> roots]

SolveNonpolynomial(e, guesses) ==
    SolveNonpolynomialFrom([k \in 1..Len(guesses) |-> Fsolve(e, guesses[k])], 1, <<>>)

\* verify_roots as a function: the short-circuit, the loop over the roots,
\* the four blocks of special roots.
Augmented(a) == [raised |-> a.raised, list |-> a.list]

VerifyBlock(r, e, pats, specials) ==
    IF r.raised \/ ~ HasPattern(e, pats) THEN r
    ELSE Augmented(Augment(r.list, e, specials))

VerifyRoots(roots, e) ==
    IF ShortCircuit(e) THEN [raised |-> FALSE, list |-> <<>>]
    ELSE VerifyBlock(
            VerifyBlock(
                VerifyBlock(
                    VerifyBlock([raised |-> FALSE, list |-> GenericFilter(roots, e)],
                                e, AcosPattern, AcosSpecials),
                    e, AsinPattern, AsinSpecials),
                e, CotPattern, CotSpecials),
            e, ArctanPattern, ArctanSpecials)

\* The part solve and test_solution have in common for one line of text:
\* parse_expression, solve_polynomial or solve_nonpolynomial over the
\* guesses given, verify_roots.  raised: the exception that ends it.
Result(raised, verified, e) == [raised |-> raised, verified |-> verified, expr |-> e]

\* roots = solve_polynomial(coeffs), or roots = solve_nonpolynomial(func,
\* initial_guesses): floats become the numbers verify_roots is given.
FromFsolve(s) == [raised |-> s.raised, roots |-> [k \in 1..Len(s.roots) |-> Num(s.roots[k], 0)]]

Candidates(p, guesses) ==
    IF p.isPoly THEN [raised |-> "none", roots |-> SolvePolynomial(p.coeffs)]
    ELSE FromFsolve(SolveNonpolynomial(Str(p.expr), guesses))

\* verified_roots = verify_roots(roots, expr, symbol), reached when the
\* solver raised nothing.
Verified(e, c, v) ==
    IF c.raised # "none" THEN Result(c.raised, <<>>, e)
    ELSE Result(IF v.raised THEN "TypeError" ELSE "none", v.list, e)

Found(e, c) == Verified(e, c, VerifyRoots(c.roots, e))

PipelineFrom(p, guesses) ==
    IF p.err # "none" THEN Result(p.err, <<>>, "none")
    ELSE Found(Str(p.expr), Candidates(p, guesses))

Pipeline(line, guesses) == PipelineFrom(ParseExpression(line), guesses)

\* The verified roots a handler had in hand, when it got that far.
NotComputed == [computed |-> FALSE, roots |-> <<>>]

Computed(roots) == [computed |-> TRUE, roots |-> roots]

\* The window as it is built: the nonlinear mode (gui.py:103), an empty
\* equation box, a new HistoryManager.
UiStart ==
    /\ uiRequest = [mode |-> "nonlinear", lines |-> <<>>, entries |-> "none"]
    /\ uiHistory = EmptyHistory
    /\ uiBefore = EmptyHistory
    /\ uiOutput = <<>>
    /\ uiLast = "none"
    /\ uiCaught = "none"
    /\ uiShown = NotComputed
    /\ uiChecked = NotComputed
    /\ uiResults = <<>>

UiInit == UiStart /\ NpIdle /\ VrIdle /\ PeIdle /\ RtIdle /\ TnIdle /\ TlIdle /\ HmIdle /\ OwIdle /\ LnIdle /\ FnIdle /\ NrIdle /\ PfIdle /\ LsIdle

\* The user changes the mode or what the boxes hold.
UiEdit ==
    /\ uiRequest' \in UiRequests \ {uiRequest}
    /\ uiLast' = "edit"
    /\ uiShown' = NotComputed
    /\ uiChecked' = NotComputed
    /\ UNCHANGED <<uiHistory, uiBefore, uiOutput, uiCaught, uiResults>>
    /\ UNCHANGED <<npVars, vrVars, peVars, rtVars, tnVars, tlVars, hmVars, owVars, lnVars, fnVars, nrVars, pfVars, lsVars>>

\* What one call of solve does: the messages it shows, the exception its
\* handler caught, the record it adds, the verified roots it displayed.
Outcome(out, caught, rec, shown) == [out |-> out, caught |-> caught, rec |-> rec, shown |-> shown]

NoRecord == <<>>

\* except Exception as e: insert(f"错误: {str(e)}!\n", "error")
CaughtAndRecorded(sofar, e) ==
    Outcome(Append(sofar, ErrorMsg(e)), e,
            <<[type |-> "nonlinear", rec |-> [expression |-> <<>>, msg |-> e, roots |-> <<>>]]>>,
            NotComputed)

Caught(sofar, e) == Outcome(Append(sofar, ErrorMsg(e)), e, NoRecord, NotComputed)

\* The matrix branch (gui.py:531-591): "错误: 矩阵不能为空!" and return; an
\* operation that raises (the inverse of a singular matrix, a power that is
\* no integer); or the result shown and recorded.
SolveMatrix(entries) ==
    CASE entries = "empty" -> Outcome(<<ErrorMsg("matrix is empty")>>, "none", NoRecord, NotComputed)
      [] entries = "raises" -> Caught(<<>>, "matrix operation")
      [] entries = "computes" ->
            Outcome(<<Info("matrix result")>>, "none",
                    <<[type |-> "matrix", rec |-> Record(<<>>, "matrix result", <<>>)]>>, NotComputed)

\* The linear branch (gui.py:593-651): float(value) raises ValueError for a
\* text that is no number; "错误: 方程组不能为空!" and return; "方程组无解。";
\* "方程组有唯一解:"; "方程组有无穷多解:".
SolveLinear(entries) ==
    CASE entries = "not a number" -> Caught(<<>>, "ValueError: float")
      [] entries = "empty" -> Outcome(<<ErrorMsg("system is empty")>>, "none", NoRecord, NotComputed)
      [] entries = "no solution" ->
            Outcome(<<Info("no solution")>>, "none",
                    <<[type |-> "linear", rec |-> Record(<<>>, "no solution", <<>>)]>>, NotComputed)
      [] entries = "unique" ->
            Outcome(<<Info("unique solution")>>, "none",
                    <<[type |-> "linear", rec |-> Record(<<>>, "unique solution", <<>>)]>>, NotComputed)
      [] entries = "infinite" ->
            Outcome(<<Info("infinitely many")>>, "none",
                    <<[type |-> "linear", rec |-> Record(<<>>, "infinitely many", <<>>)]>>, NotComputed)

\* The nonlinear branch (gui.py:652-690): "错误: 非线性方程不能为空!" and
\* return; the loop over the lines; "错误: 请确保输入一个非线性方程!" and
\* return for more than one line; "方程的根为:" and the record; "方程没有实数根。"
\* and the record.
NoRootsInSolveAsError == ErrorMsg("no real roots")

NoRootsInSolve == Info("no real roots")

\* What solve shows for the one line it was given.
Shown(line, r) ==
    IF r.raised # "none" THEN Caught(<<>>, r.raised)
    ELSE IF r.verified # <<>>
    THEN Outcome(<<Info("roots")>>, "none",
                 <<[type |-> "nonlinear", rec |-> Record(line, "roots", r.verified)]>>,
                 Computed(r.verified))
    ELSE Outcome(<<NoRootsInSolve>>, "none",
                 <<[type |-> "nonlinear", rec |-> Record(line, "no real roots", <<>>)]>>,
                 Computed(<<>>))

RaisedInLoop(lines, e) ==
    IF e # "none" THEN Caught(<<>>, e)
    ELSE IF Len(lines) # 1
    THEN Outcome(<<ErrorMsg("give one equation")>>, "none", NoRecord, NotComputed)
    ELSE Shown(lines[1], Pipeline(lines[1], SolveGuesses))

SolveNonlinear(lines) ==
    IF lines = <<>>
    THEN Outcome(<<ErrorMsg("equation is empty")>>, "none", NoRecord, NotComputed)
    ELSE RaisedInLoop(lines, LinesError(lines))

Solve(request) ==
    CASE request.mode = "matrix" -> SolveMatrix(request.entries)
      [] request.mode = "linear" -> SolveLinear(request.entries)
      [] request.mode = "nonlinear" -> SolveNonlinear(request.lines)

\* Solve, request by request.
SolveOf == [request \in UiRequests |-> Solve(request)]

\* solve(): the output box is emptied, the branch of the mode runs inside
\* the try, the record (when there is one) is the last thing it adds.
UiSolve ==
    /\ HistorySize(uiHistory) < MaxHistory
    /\ \E o \in {SolveOf[uiRequest]} :
           /\ uiOutput' = o.out
           /\ uiCaught' = o.caught
           /\ uiHistory' = IF o.rec = NoRecord THEN uiHistory
                           ELSE add_record(uiHistory, o.rec[1].type, o.rec[1].rec)
           /\ uiShown' = o.shown
    /\ uiBefore' = uiHistory
    /\ uiLast' = "solve"
    /\ UNCHANGED <<uiRequest, uiChecked, uiResults>>
    /\ UNCHANGED <<npVars, vrVars, peVars, rtVars, tnVars, tlVars, hmVars, owVars, lnVars, fnVars, nrVars, pfVars, lsVars>>

\* test_nonlinear_solution as a function.
RECURSIVE TestNonlinearFrom(_, _, _, _)
TestNonlinearFrom(e, solutions, i, results) ==
    IF i > Len(solutions) THEN [raised |-> FALSE, results |-> results]
    ELSE IF Check(e, solutions[i]) \in {"TypeError", "ValueError"}
    THEN [raised |-> TRUE, results |-> results]
    ELSE TestNonlinearFrom(e, solutions, i + 1,
                           DictSet(results, solutions[i], Check(e, solutions[i]) = "true"))

\* What one call of test_solution does: the messages, the exception caught,
\* the verified roots it had, the result of test_nonlinear_solution.
Tested(out, caught, checked, results) ==
    [out |-> out, caught |-> caught, checked |-> checked, results |-> results]

\* The nonlinear branch (gui.py:954-980): "错误: 无计算结果，请输入方程求解后再测试验证!"
\* and the ValueError raised after it; "错误: 无实数根，不可验证！"; "非线性方程测试
\* 结果: 全部通过"; "非线性方程测试结果: 有未通过".
Reported(verified, t) ==
    IF t.raised
    THEN Tested(<<ErrorMsg("TypeError")>>, "TypeError", Computed(verified), <<>>)
    ELSE IF \A k \in 1..Len(t.results) : t.results[k].val
    THEN Tested(<<Info("all passed")>>, "none", Computed(verified), t.results)
    ELSE Tested(<<Info("some failed")>>, "none", Computed(verified), t.results)

Checked(r) ==
    IF r.raised # "none"
    THEN Tested(<<ErrorMsg(r.raised)>>, r.raised, NotComputed, <<>>)
    ELSE IF r.verified = <<>>
    THEN Tested(<<ErrorMsg("no real roots, nothing to verify")>>, "none", Computed(<<>>), <<>>)
    ELSE Reported(r.verified, TestNonlinearFrom(r.expr, r.verified, 1, <<>>))

TestNonlinear(lines, guesses) ==
    IF Len(lines) # 1
    THEN Tested(<<ErrorMsg("nothing computed"), ErrorMsg("ValueError: nothing computed")>>,
                "ValueError: nothing computed", NotComputed, <<>>)
    ELSE Checked(Pipeline(lines[1], guesses))

\* The linear branch (gui.py:895-952): a text that is no number raises
\* ValueError; no row at all shows "错误: 方程组不能为空!" and raises; "错误: 无解，
\* 不可验证！"; otherwise the solution linsolve gives is put to
\* test_linear_solution, and "全部通过" or "有未通过" is shown.
TestLinear(entries, passed) ==
    CASE entries = "not a number" -> Tested(<<ErrorMsg("ValueError: number")>>, "ValueError: number", NotComputed, <<>>)
      [] entries = "empty" ->
            Tested(<<ErrorMsg("system is empty"), ErrorMsg("ValueError: system is empty")>>,
                   "ValueError: system is empty", NotComputed, <<>>)
      [] entries = "no solution" ->
            Tested(<<ErrorMsg("no solution, nothing to verify")>>, "none", NotComputed, <<>>)
      [] entries \in {"unique", "infinite"} ->
            Tested(<<Info(IF passed THEN "all passed" ELSE "some failed")>>, "none", NotComputed, <<>>)

\* test_solution(): the output box is emptied and the branch of the mode
\* runs inside the try; in the matrix mode "错误: 此功能仅适用于非线性方程和线性方程组
\* 的测试验证!".  Nothing is recorded.
TestSolution(request, guesses, passed) ==
    CASE request.mode = "linear" -> TestLinear(request.entries, passed)
      [] request.mode = "nonlinear" -> TestNonlinear(request.lines, guesses)
      [] request.mode = "matrix" -> Tested(<<ErrorMsg("not for matrices")>>, "none", NotComputed, <<>>)

\* TestSolution, request by request; passed is whether the solution of a
\* linear system passes test_linear_solution.
TestSolutionOf ==
    [request \in UiRequests, passed \in BOOLEAN |-> TestSolution(request, TestGuesses, passed)]

UiTestSolution ==
    /\ \E passed \in BOOLEAN :
        \E o \in {TestSolutionOf[uiRequest, passed]} :
            /\ uiRequest.mode # "linear" => passed
            /\ uiOutput' = o.out
            /\ uiCaught' = o.caught
            /\ uiChecked' = o.checked
            /\ uiResults' = o.results
    /\ uiBefore' = uiHistory
    /\ uiLast' = "test_solution"
    /\ UNCHANGED <<uiRequest, uiHistory, uiShown>>
    /\ UNCHANGED <<npVars, vrVars, peVars, rtVars, tnVars, tlVars, hmVars, owVars, lnVars, fnVars, nrVars, pfVars, lsVars>>

UiNext == UiEdit \/ UiSolve \/ UiTestSolution

UiSolveCaught == uiLast = "solve" /\ uiCaught # "none"

Wit_C16Shape ==
    /\ UiSolveCaught
    /\ uiCaught = "ValueError: one variable"
    /\ HistorySize(uiHistory) > 0

\* A parse error: a text sympify rejects.
Wit_C16Parse ==
    /\ UiSolveCaught
    /\ uiCaught = "SympifyError"
    /\ HistorySize(uiHistory) > 0

UiSolveFoundNone == uiLast = "solve" /\ uiShown = Computed(<<>>)

UiTestFoundNone == uiLast = "test_solution" /\ uiChecked = Computed(<<>>)

\* The texts shown for a parse or shape failure.
ParseFailureBodies == {"SympifyError", "ValueError: unpack", "ValueError: one variable"}

\* C17 as stated: when solve or test_solution ends with an empty list of
\* verified roots, what it shows is one message without the error prefix and
\* without the error style, and not a message of a parse or shape failure.
CE_C17 ==
    UiSolveFoundNone \/ UiTestFoundNone =>
        /\ Len(uiOutput) = 1
        /\ ~ uiOutput[1].prefix
        /\ uiOutput[1].tag = "none"
        /\ uiOutput[1].body \notin ParseFailureBodies

\* C17 amended: solve shows an empty list of verified roots as the message
\* "no real roots" without prefix and style (and records it); test_solution
\* shows it as the message "no real roots, nothing to verify" with the error
\* prefix and in the error style; in both no exception was caught and the
\* text is none of those shown for a parse or shape failure.
Thm_C17 ==
    /\ UiSolveFoundNone =>
        /\ uiOutput = <<Info("no real roots")>>
        /\ uiHistory.nonlinear # <<>>
        /\ uiHistory.nonlinear[1] = Record(uiRequest.lines[1], "no real roots", <<>>)
    /\ UiTestFoundNone =>
        /\ uiOutput = <<ErrorMsg("no real roots, nothing to verify")>>
        /\ uiHistory = uiBefore
    /\ UiSolveFoundNone \/ UiTestFoundNone =>
        /\ uiCaught = "none"
        /\ uiOutput[1].body \notin ParseFailureBodies

\* test_solution found no verified root.
Wit_C17 == UiTestFoundNone /\ uiOutput[1].tag = "error"

\* solve found no verified root.
Wit_C17Solve == UiSolveFoundNone /\ uiOutput[1].tag = "none"

\* C18 as stated: once solve and test_solution have both computed the
\* verified roots of the same text, the two sets of roots are the same.
CE_C18 ==
    uiShown.computed /\ uiChecked.computed =>
        Range(uiShown.roots) = Range(uiChecked.roots)

SpecUi == UiInit /\ [][UiNext]_vars

(***************************************************************************)
(* HistoryManager (src/src/historyManager.py:21-84).  A record is the      *)
(* number of the add_record call that made it.  self.history["matrix"] is  *)
(* a dict of lists as built; isDict tells whether it still is one, subs is *)
(* the dict, list is the list that stands in its place after an            *)
(* assignment of [].                                                       *)
(***************************************************************************)

\* The most add_record calls.
MaxRecords == 2

SubOperations == {"determinant", "inverse", "transpose", "rank", "power", "multiply", "eigen"}

OperationTypes == {"nonlinear", "linear", "matrix"}

\* sub_operation: one of the seven names, or None.
SubArguments == SubOperations \cup {"none"}

MatrixDict(subs) == [isDict |-> TRUE, subs |-> subs, list |-> <<>>]

MatrixList(list) == [isDict |-> FALSE, subs |-> [o \in SubOperations |-> <<>>], list |-> list]

\* __init__
NewHistory ==
    [nonlinear |-> <<>>, linear |-> <<>>, matrix |-> MatrixDict([o \in SubOperations |-> <<>>])]

Done(h) == [raised |-> "none", h |-> h]

Failed(h, cls) == [raised |-> cls, h |-> h]

\* add_record(operation_type, expression, result, sub_operation)
AddRecordAtEnd(h, type, sub, rec) ==
    IF type = "matrix" /\ sub # "none"
    THEN IF h.matrix.isDict
         THEN Done([h EXCEPT !.matrix.subs[sub] = Append(@, rec)])
         ELSE Failed(h, "TypeError")
    ELSE IF type = "matrix"
         THEN IF h.matrix.isDict
              THEN Failed(h, "AttributeError")
              ELSE Done([h EXCEPT !.matrix.list = Append(@, rec)])
         ELSE Done([h EXCEPT ![type] = Append(@, rec)])

AddRecord(h, type, sub, rec) ==
    IF type = "matrix" /\ sub # "none"
    THEN IF h.matrix.isDict
         THEN Done([h EXCEPT !.matrix.subs[sub] = <<rec>> \o @])
         ELSE Failed(h, "TypeError")
    ELSE IF type = "matrix"
         THEN IF h.matrix.isDict
              THEN Failed(h, "AttributeError")
              ELSE Done([h EXCEPT !.matrix.list = <<rec>> \o @])
         ELSE Done([h EXCEPT ![type] = <<rec>> \o @])

\* get_history(operation_type, sub_operation): the list returned; for
\* "matrix" without a sub-operation the value of self.history["matrix"]
\* itself (whole: TRUE).
Got(list) == [raised |-> "none", whole |-> FALSE, list |-> list]

GotMatrix(m) == [raised |-> "none", whole |-> TRUE, list |-> m.list]

NotGot(cls) == [raised |-> cls, whole |-> FALSE, list |-> <<>>]

GetHistory(h, type, sub) ==
    IF type = "matrix" /\ sub # "none"
    THEN IF h.matrix.isDict THEN Got(h.matrix.subs[sub]) ELSE NotGot("AttributeError")
    ELSE IF type = "matrix" THEN GotMatrix(h.matrix)
    ELSE Got(h[type])

\* clear_history(operation_type, sub_operation)
ClearHistory(h, type, sub) ==
    IF type = "matrix" /\ sub # "none"
    THEN IF h.matrix.isDict
         THEN Done([h EXCEPT !.matrix.subs[sub] = <<>>])
         ELSE Failed(h, "TypeError")
    ELSE IF type = "matrix"
         THEN Done([h EXCEPT !.matrix = MatrixList(<<>>)])
         ELSE Done([h EXCEPT ![type] = <<>>])

\* The categories that hold records: the two plain ones and the seven
\* sub-operations of "matrix".
Categories == {"nonlinear", "linear"} \cup SubOperations

\* The category a call with these arguments names; "matrix" without a
\* sub-operation names the whole of the matrix part.
CategoryOf(type, sub) == IF type = "matrix" THEN sub ELSE type

Call(op, type, sub, raised) == [op |-> op, type |-> type, sub |-> sub, raised |-> raised]

HmStart ==
    /\ hmHistory = NewHistory
    /\ hmAdded = [c \in Categories |-> <<>>]
    /\ hmCalls = 0
    /\ hmLast = Call("init", "none", "none", "none")
    /\ hmGot = <<>>

HmInit == HmStart /\ NpIdle /\ VrIdle /\ PeIdle /\ RtIdle /\ TnIdle /\ TlIdle /\ UiIdle /\ OwIdle /\ LnIdle /\ FnIdle /\ NrIdle /\ PfIdle /\ LsIdle

HmAddRecord ==
    /\ hmCalls < MaxRecords
    /\ \E type \in OperationTypes, sub \in SubArguments :
        \E r \in {AddRecord(hmHistory, type, sub, hmCalls + 1)} :
            /\ hmHistory' = r.h
            /\ hmLast' = Call("add_record", type, sub, r.raised)
            /\ hmAdded' = IF r.raised = "none" /\ CategoryOf(type, sub) \in Categories
                          THEN [hmAdded EXCEPT ![CategoryOf(type, sub)] = <<hmCalls + 1>> \o @]
                          ELSE hmAdded
    /\ hmCalls' = hmCalls + 1
    /\ UNCHANGED hmGot
    /\ UNCHANGED <<npVars, vrVars, peVars, rtVars, tnVars, tlVars, uiVars, owVars, lnVars, fnVars, nrVars, pfVars, lsVars>>

HmGetHistory ==
    /\ \E type \in OperationTypes, sub \in SubArguments :
        \E r \in {GetHistory(hmHistory, type, sub)} :
            /\ hmGot' = r.list
            /\ hmLast' = Call(IF r.whole THEN "get_history (whole)" ELSE "get_history", type, sub, r.raised)
    /\ UNCHANGED <<hmHistory, hmAdded, hmCalls>>
    /\ UNCHANGED <<npVars, vrVars, peVars, rtVars, tnVars, tlVars, uiVars, owVars, lnVars, fnVars, nrVars, pfVars, lsVars>>

HmClearHistory ==
    /\ \E type \in OperationTypes, sub \in SubArguments :
        \E r \in {ClearHistory(hmHistory, type, sub)} :
            /\ hmHistory' = r.h
            /\ hmLast' = Call("clear_history", type, sub, r.raised)
            /\ hmAdded' = IF r.raised # "none" THEN hmAdded
                          ELSE [c \in Categories |->
                                    IF c = CategoryOf(type, sub) \/ (type = "matrix" /\ sub = "none" /\ c \in SubOperations)
                                    THEN <<>> ELSE hmAdded[c]]
    /\ UNCHANGED <<hmCalls, hmGot>>
    /\ UNCHANGED <<npVars, vrVars, peVars, rtVars, tnVars, tlVars, uiVars, owVars, lnVars, fnVars, nrVars, pfVars, lsVars>>

HmNext == HmAddRecord \/ HmGetHistory \/ HmClearHistory

\* get_history of a category returned a list.
HmGotCategory ==
    /\ hmLast.op = "get_history"
    /\ hmLast.raised = "none"

\* The list the history holds for a category.
HmStored(c) == IF c \in SubOperations THEN hmHistory.matrix.subs[c] ELSE hmHistory[c]

HmShape ==
    /\ DOMAIN hmHistory = {"nonlinear", "linear", "matrix"}
    /\ hmHistory.matrix.isDict
    /\ DOMAIN hmHistory.matrix.subs = SubOperations

\* C27 as stated: the history keeps its shape, and add_record and
\* get_history for a matrix sub-operation never fail.
CE_C27 ==
    /\ HmShape
    /\ hmLast.op \in {"add_record", "get_history"} /\ hmLast.type = "matrix" /\ hmLast.sub # "none"
            => hmLast.raised = "none"

SpecHistory == HmInit /\ [][HmNext]_vars

(***************************************************************************)
(* The state option of the output widget under solve, solve_newton and     *)
(* test_solution (src/src/gui.py:523-694, 696-885, 887-988).  Each handler  *)
(* sets state=NORMAL first and state=DISABLED in its last statement, after *)
(* the try.                                                                *)
(***************************************************************************)

\* The path solve takes on a request: an exception caught by the handler, a
\* return inside the try after an error message, or the end of the branch.
SolvePath(o) ==
    IF o.caught # "none" THEN "caught"
    ELSE IF o.out[Len(o.out)].tag = "error" THEN "return"
    ELSE "through"

\* test_solution has no return: it leaves the try at its end or by an
\* exception.
TestPath(o) == IF o.caught # "none" THEN "caught" ELSE "through"

\* A `return` inside the try leaves the function: the statement after the
\* try is not reached.
StateAfter(path) == IF path = "return" THEN "normal" ELSE "disabled"

\* tk.Text(..., state=tk.DISABLED) (gui.py:249), the nonlinear mode, an
\* empty equation box.
OwStart ==
    /\ owRequest = [mode |-> "nonlinear", lines |-> <<>>, entries |-> "none"]
    /\ owState = "disabled"
    /\ owLast = [op |-> "init", path |-> "none"]

OwInit == OwStart /\ NpIdle /\ VrIdle /\ PeIdle /\ RtIdle /\ TnIdle /\ TlIdle /\ UiIdle /\ HmIdle /\ LnIdle /\ FnIdle /\ NrIdle /\ PfIdle /\ LsIdle

\* The user changes the mode or what the boxes hold.
OwEdit ==
    /\ owRequest' \in UiRequests \ {owRequest}
    /\ UNCHANGED <<owState, owLast>>
    /\ UNCHANGED <<npVars, vrVars, peVars, rtVars, tnVars, tlVars, uiVars, hmVars, lnVars, fnVars, nrVars, pfVars, lsVars>>

OwSolve ==
    /\ \E path \in {SolvePath(SolveOf[owRequest])} :
        /\ owState' = StateAfter(path)
        /\ owLast' = [op |-> "solve", path |-> path]
    /\ UNCHANGED owRequest
    /\ UNCHANGED <<npVars, vrVars, peVars, rtVars, tnVars, tlVars, uiVars, hmVars, lnVars, fnVars, nrVars, pfVars, lsVars>>

\* solve_newton is solve with solve_and_visualize and Image.open('pic.jpg')
\* before verify_roots in the nonlinear branch: the picture opens, or the
\* call raises and the handler catches it.
OwSolveNewton ==
    /\ \E path \in {SolvePath(SolveOf[owRequest])}, opens \in BOOLEAN :
        /\ opens \/ (owRequest.mode = "nonlinear" /\ path = "through")
        /\ owState' = StateAfter(IF opens THEN path ELSE "caught")
        /\ owLast' = [op |-> "solve_newton", path |-> IF opens THEN path ELSE "caught"]
    /\ UNCHANGED owRequest
    /\ UNCHANGED <<npVars, vrVars, peVars, rtVars, tnVars, tlVars, uiVars, hmVars, lnVars, fnVars, nrVars, pfVars, lsVars>>

OwTestSolution ==
    /\ \E passed \in BOOLEAN :
        \E path \in {TestPath(TestSolutionOf[owRequest, passed])} :
            /\ owState' = StateAfter(path)
            /\ owLast' = [op |-> "test_solution", path |-> path]
    /\ UNCHANGED owRequest
    /\ UNCHANGED <<npVars, vrVars, peVars, rtVars, tnVars, tlVars, uiVars, hmVars, lnVars, fnVars, nrVars, pfVars, lsVars>>

OwNext == OwEdit \/ OwSolve \/ OwSolveNewton \/ OwTestSolution

\* C30 as stated: after solve, solve_newton or test_solution, on every path,
\* the output widget is in the DISABLED state.
CE_C30 == owLast.op \in {"solve", "solve_newton", "test_solution"} => owState = "disabled"

SpecWidget == OwInit /\ [][OwNext]_vars

(***************************************************************************)
(* The linear branch of solve (src/src/gui.py:593-651) on the entry grid   *)
(* that create_linear_entries builds (gui.py:318-347): var_count rows of   *)
(* var_count + 1 entries, the last one the constant.                       *)
(***************************************************************************)

MaxVarCount == 2
MaxTyped == 3

\* What the user types into an entry; float() of it.
LnTexts == {"0", "1", "2"}
Float(text) == CASE text = "0" -> 0 [] text = "1" -> 1 [] text = "2" -> 2

\* `if value == "": value = 0.0 else: value = float(value)`
EntryValue(text) == IF text = "" THEN 0 ELSE Float(text)

\* The rows solve keeps: `if all(not entry.get() for entry in row_entries):
\* continue`.
KeptRows(entries) ==
    SelectSeq(entries, LAMBDA row : \E j \in 1..Len(row) : row[j] # "")

\* row + [const] for every kept row.
AugmentedMatrix(entries) ==
    [i \in 1..Len(KeptRows(entries)) |->
        [j \in 1..Len(KeptRows(entries)[i]) |-> EntryValue(KeptRows(entries)[i][j])]]

\* augmented_matrix[:, :-1]
CoefficientMatrix(m) == [i \in 1..Len(m) |-> SubSeq(m[i], 1, Len(m[i]) - 1)]

\* Matrix.rank(): the number of pivots of a row reduction.  The first row
\* with a non-zero entry in the first column is the pivot row; it is
\* taken out, the column is cleared below it and dropped.
Without(m, p) == [i \in 1..(Len(m) - 1) |-> IF i < p THEN m[i] ELSE m[i + 1]]
Tails(m) == [i \in 1..Len(m) |-> Tail(m[i])]
Eliminated(m, p) ==
    [i \in 1..Len(m) |->
        [j \in 1..Len(m[i]) |-> m[p][1] * m[i][j] - m[i][1] * m[p][j]]]

RECURSIVE Rank(_)
Rank(m) ==
    IF Len(m) = 0 \/ Len(m[1]) = 0 THEN 0
    ELSE IF \A i \in 1..Len(m) : m[i][1] = 0 THEN Rank(Tails(m))
    ELSE LET p == CHOOSE i \in 1..Len(m) :
                    /\ m[i][1] # 0
                    /\ \A k \in 1..(i - 1) : m[k][1] = 0
         IN 1 + Rank(Tails(Without(Eliminated(m, p), p)))

\* The chain `if rank_coefficient_matrix != rank_augmented_matrix: ... elif
\* rank_coefficient_matrix == num_variables: ... else: ...` (gui.py:621-651).
ClassifyNonZeroRank(rank_coefficient_matrix, rank_augmented_matrix, num_variables) ==
    IF rank_coefficient_matrix # rank_augmented_matrix THEN "no solution"
    ELSE IF rank_coefficient_matrix > 0 THEN "unique"
    ELSE "infinite"

Classify(rank_coefficient_matrix, rank_augmented_matrix, num_variables) ==
    IF rank_coefficient_matrix # rank_augmented_matrix THEN "no solution"
    ELSE IF rank_coefficient_matrix = num_variables THEN "unique"
    ELSE "infinite"

\* `if not coefficients or not constants:` the error and return; else the
\* ranks and the chain.  num_variables = len(coefficients[0]).
LinearBranch(augmented_matrix) ==
    IF Len(augmented_matrix) = 0 THEN "empty"
    ELSE Classify(Rank(CoefficientMatrix(augmented_matrix)), Rank(augmented_matrix),
                  Len(augmented_matrix[1]) - 1)

Typed(entries) ==
    Cardinality({c \in (1..Len(entries)) \X (1..(Len(entries) + 1)) : entries[c[1]][c[2]] # ""})

\* create_linear_entries with a variable count: every entry empty.
LnStart ==
    /\ \E var_count \in 1..MaxVarCount :
        lnEntries = [i \in 1..var_count |-> [j \in 1..(var_count + 1) |-> ""]]
    /\ lnOut = [kind |-> "none"]

LnInit == LnStart /\ NpIdle /\ VrIdle /\ PeIdle /\ RtIdle /\ TnIdle /\ TlIdle /\ UiIdle /\ HmIdle /\ OwIdle /\ FnIdle /\ NrIdle /\ PfIdle /\ LsIdle

\* The user types a number into an empty entry.
LnType ==
    /\ lnOut.kind = "none"
    /\ Typed(lnEntries) < MaxTyped
    /\ \E i \in 1..Len(lnEntries), j \in 1..(Len(lnEntries) + 1), text \in LnTexts :
        /\ lnEntries[i][j] = ""
        /\ lnEntries' = [lnEntries EXCEPT ![i][j] = text]
    /\ UNCHANGED lnOut
    /\ UNCHANGED <<npVars, vrVars, peVars, rtVars, tnVars, tlVars, uiVars, hmVars, owVars, fnVars, nrVars, pfVars, lsVars>>

\* solve in linear mode.
LnSolve ==
    /\ lnOut.kind = "none"
    /\ lnOut' = [kind |-> LinearBranch(AugmentedMatrix(lnEntries))]
    /\ UNCHANGED lnEntries
    /\ UNCHANGED <<npVars, vrVars, peVars, rtVars, tnVars, tlVars, uiVars, hmVars, owVars, fnVars, nrVars, pfVars, lsVars>>

LnNext == LnType \/ LnSolve

\* The rank of a matrix as the size of its largest square submatrix with a
\* non-zero determinant.
RECURSIVE Ascending(_)
Ascending(S) ==
    IF S = {} THEN <<>>
    ELSE LET x == CHOOSE y \in S : \A z \in S : y <= z
         IN <<x>> \o Ascending(S \ {x})

Sub(m, rows, cols) == [i \in 1..Len(rows) |-> [j \in 1..Len(cols) |-> m[rows[i]][cols[j]]]]

RECURSIVE Det(_)
Det(m) ==
    IF Len(m) = 0 THEN 1
    ELSE LET Sum[j \in 0..Len(m)] ==
                IF j = 0 THEN 0
                ELSE Sum[j - 1] + (IF j % 2 = 1 THEN 1 ELSE -1) * m[1][j]
                        * Det(Sub(m, Ascending(2..Len(m)), Ascending((1..Len(m)) \ {j})))
         IN Sum[Len(m)]

MinorRank(m) ==
    LET sizes == {k \in 0..Len(m) :
                    \E R \in SUBSET (1..Len(m)), K \in SUBSET (1..Len(m[1])) :
                        /\ Cardinality(R) = k
                        /\ Cardinality(K) = k
                        /\ Det(Sub(m, Ascending(R), Ascending(K))) # 0}
    IN CHOOSE k \in sizes : \A l \in sizes : l <= k

LnSystem == AugmentedMatrix(lnEntries)
LnSolved == lnOut.kind # "none" /\ Len(LnSystem) > 0
\* C21: in linear mode solve puts every non-empty system into exactly one of
\* three outcomes: no solution exactly when the rank of the coefficient
\* matrix differs from the rank of the augmented matrix, a unique solution
\* exactly when the two ranks are equal and equal to the number of
\* variables, infinitely many solutions in every remaining case.
Thm_C21 ==
    LnSolved =>
        \E rc \in {MinorRank(CoefficientMatrix(LnSystem))}, ra \in {MinorRank(LnSystem)},
           num_variables \in {Len(lnEntries)} :
            /\ lnOut.kind \in {"no solution", "unique", "infinite"}
            /\ lnOut.kind = "no solution" <=> rc # ra
            /\ lnOut.kind = "unique" <=> (rc = ra /\ rc = num_variables)
            /\ lnOut.kind = "infinite" <=> (rc = ra /\ rc # num_variables)

\* Two proportional equations in two unknowns: equal ranks below the number
\* of variables.
Wit_C21 ==
    /\ LnSolved
    /\ Len(LnSystem) = 2
    /\ LnSystem[1][1] # 0
    /\ LnSystem[2][1] # 0
    /\ lnOut.kind = "infinite"

SpecLinear == LnInit /\ [][LnNext]_vars

(***************************************************************************)
(* format_number (src/src/utils.py:34-46).  A number is its sign, its      *)
(* whole part and its fraction in units of 1e-9, one decimal place more    *)
(* than the format keeps; a string is the sequence of its characters.      *)
(***************************************************************************)

MaxWhole == 10

\* Fractions in units of 1e-9: none, below and above half a unit of the
\* eighth decimal place at both ends, and fractions of one to nine places.
\* A last digit of 5 is left out: which way the binary value of such a
\* number rounds is not a matter of its decimal digits.
FnNanos ==
    {0, 1, 4, 6, 9, 10, 14, 16, 120, 100000000, 500000000, 120000000, 123456780,
     123456789, 900000000, 999999990, 999999994, 999999996, 999999999}

FnNums ==
    [neg : BOOLEAN, whole : 0..MaxWhole, nano : FnNanos, given : {TRUE}]

DigitChars == <<"0", "1", "2", "3", "4", "5", "6", "7", "8", "9">>

\* str() of a non-negative int.
RECURSIVE NatStr(_)
NatStr(n) ==
    IF n < 10 THEN <<DigitChars[n + 1]>>
    ELSE NatStr(n \div 10) \o <<DigitChars[(n % 10) + 1]>>

\* The digits of n in a field of the given width, zeros in front.
RECURSIVE Padded(_, _)
Padded(n, width) ==
    IF width = 0 THEN <<>>
    ELSE Padded(n \div 10, width - 1) \o <<DigitChars[(n % 10) + 1]>>

\* str(int(num)): int() drops the fraction; minus zero is the int 0.
IntStr(num) ==
    (IF num.neg /\ num.whole # 0 THEN <<"-">> ELSE <<>>) \o NatStr(num.whole)

\* f"{num:.8f}": the value rounded to eight places, the sign of the
\* number kept even when every digit left is 0.
Places(num) == num.whole * 100000000 + (num.nano \div 10) + (IF num.nano % 10 > 5 THEN 1 ELSE 0)
FixedStr(num) ==
    (IF num.neg THEN <<"-">> ELSE <<>>)
        \o NatStr(Places(num) \div 100000000) \o <<".">> \o Padded(Places(num) % 100000000, 8)

\* str.rstrip(c)
RstripNothing(str, c) == str

RECURSIVE Rstrip(_, _)
Rstrip(str, c) ==
    IF Len(str) > 0 /\ str[Len(str)] = c THEN Rstrip(SubSeq(str, 1, Len(str) - 1), c)
    ELSE str

\* `if num == int(num): return str(int(num))`, else the formatted string
\* with '0' and then '.' stripped from its right end ('.' is always in it).
format_number(num) ==
    IF num.nano = 0 THEN IntStr(num)
    ELSE Rstrip(Rstrip(FixedStr(num), "0"), ".")

FnStart ==
    /\ fnNum \in FnNums
    /\ fnOut = <<>>

FnInit == FnStart /\ NpIdle /\ VrIdle /\ PeIdle /\ RtIdle /\ TnIdle /\ TlIdle /\ UiIdle /\ HmIdle /\ OwIdle /\ LnIdle /\ NrIdle /\ PfIdle /\ LsIdle

FnFormat ==
    /\ fnOut = <<>>
    /\ fnOut' = format_number(fnNum)
    /\ UNCHANGED fnNum
    /\ UNCHANGED <<npVars, vrVars, peVars, rtVars, tnVars, tlVars, uiVars, hmVars, owVars, lnVars, nrVars, pfVars, lsVars>>

FnNext == FnFormat

FnDigitsOnly(str) == \A i \in 1..Len(str) : \E d \in 1..10 : str[i] = DigitChars[d]

\* An optional sign and digits, nothing else.
BareInteger(str) ==
    /\ Len(str) > 0
    /\ IF str[1] = "-" THEN Len(str) > 1 /\ FnDigitsOnly(Tail(str)) ELSE FnDigitsOnly(str)

\* An optional sign, digits, a point and one to eight digits, the last of
\* them not 0.
FixedPoint(str) ==
    \E p \in 2..(Len(str) - 1) :
        /\ str[p] = "."
        /\ BareInteger(SubSeq(str, 1, p - 1))
        /\ FnDigitsOnly(SubSeq(str, p + 1, Len(str)))
        /\ Len(str) - p <= 8
        /\ str[Len(str)] # "0"

FnReturned == fnOut # <<>>
Integral(num) == num.nano = 0

\* Within half a unit of the eighth decimal place of an integer.
RoundsToInteger(num) == num.nano < 5 \/ num.nano > 999999995

\* C23 as stated: a bare integer string exactly when the value is integral;
\* every non-integral value as a fixed-point decimal with at most eight
\* fractional digits, no trailing zero and no trailing point.
CE_C23 ==
    FnReturned =>
        /\ BareInteger(fnOut) <=> Integral(fnNum)
        /\ ~Integral(fnNum) => FixedPoint(fnOut)

\* C23, amended: a bare integer string exactly when the value is within
\* 5e-9 of an integer, that is when it rounds to an integer at eight
\* decimal places; every other value as a fixed-point decimal with one to
\* eight fractional digits, no trailing zero and no trailing point.
Thm_C23 ==
    FnReturned =>
        /\ BareInteger(fnOut) <=> RoundsToInteger(fnNum)
        /\ ~RoundsToInteger(fnNum) => FixedPoint(fnOut)

\* 9.999999999 comes back as "10".
Wit_C23 ==
    /\ FnReturned
    /\ ~Integral(fnNum)
    /\ fnOut = <<"1", "0">>

SpecFormat == FnInit /\ [][FnNext]_vars

(***************************************************************************)
(* newton_raphson (src/src/solver.py:30-57; src/cal_try.py:8-35 is the     *)
(* same text).  Floats are finite numbers in units of 1e-7, or nan.        *)
(***************************************************************************)

MaxIter == 3
NewtonTol == 10

Finite(v) == [k |-> "num", v |-> v]
NotANumber == [k |-> "nan", v |-> 0]

\* The points the iteration can visit: two exactly tol apart, two closer
\* than tol, and nan.
NrPoints == {Finite(0), Finite(10), Finite(20), Finite(25), NotANumber}

\* What f and df give at a point: a derivative with abs(dfx) < tol, or the
\* point x - fx / dfx.
Flat == [flat |-> TRUE, to |-> NotANumber]
MovesTo(p) == [flat |-> FALSE, to |-> p]
NrUpdates == {Flat} \cup {MovesTo(p) : p \in NrPoints}

\* `abs(x_new - x) < tol`; a comparison with nan is False.
ConvergedWithin(x_new, x) ==
    x_new.k = "num" /\ x.k = "num" /\ Abs(x_new.v - x.v) <= NewtonTol

Converged(x_new, x) ==
    x_new.k = "num" /\ x.k = "num" /\ Abs(x_new.v - x.v) < NewtonTol

\* x = x0; iter_values = [x0]
NrStart ==
    /\ nrArgs \in [update : [NrPoints -> NrUpdates], x0 : NrPoints, given : {TRUE}]
    /\ nrX = nrArgs.x0
    /\ nrIterValues = <<nrArgs.x0>>
    /\ nrCount = 0
    /\ nrOut = [kind |-> "running"]

NrInit == NrStart /\ NpIdle /\ VrIdle /\ PeIdle /\ RtIdle /\ TnIdle /\ TlIdle /\ UiIdle /\ HmIdle /\ OwIdle /\ LnIdle /\ FnIdle /\ PfIdle /\ LsIdle

\* One pass of `for _ in range(max_iter)`.
NrIterate ==
    /\ nrOut.kind = "running"
    /\ nrCount < MaxIter
    /\ nrCount' = nrCount + 1
    /\ \E u \in {nrArgs.update[nrX]} :
        IF u.flat
        THEN /\ nrOut' = [kind |-> "ValueError: Derivative near zero; no convergence."]
             /\ UNCHANGED <<nrX, nrIterValues>>
        ELSE /\ nrIterValues' = Append(nrIterValues, u.to)
             /\ IF Converged(u.to, nrX)
                THEN /\ nrOut' = [kind |-> "returned", root |-> u.to]
                     /\ UNCHANGED nrX
                ELSE /\ nrX' = u.to
                     /\ UNCHANGED nrOut
    /\ UNCHANGED nrArgs
    /\ UNCHANGED <<npVars, vrVars, peVars, rtVars, tnVars, tlVars, uiVars, hmVars, owVars, lnVars, fnVars, pfVars, lsVars>>

\* The loop is exhausted: the raise after it.
NrExhaust ==
    /\ nrOut.kind = "running"
    /\ nrCount = MaxIter
    /\ nrOut' = [kind |-> "ValueError: Maximum iterations exceeded; no convergence."]
    /\ UNCHANGED <<nrArgs, nrX, nrIterValues, nrCount>>
    /\ UNCHANGED <<npVars, vrVars, peVars, rtVars, tnVars, tlVars, uiVars, hmVars, owVars, lnVars, fnVars, pfVars, lsVars>>

NrNext == NrIterate \/ NrExhaust

NrDiffers(i) ==
    \/ nrIterValues[i].k # "num"
    \/ nrIterValues[i + 1].k # "num"
    \/ Abs(nrIterValues[i + 1].v - nrIterValues[i].v) >= NewtonTol

\* C24: newton_raphson ends within max_iter iterations whatever f, df and
\* x0 are: it returns as soon as two successive iterates differ by less
\* than tol, or raises ValueError, for a derivative below tol in magnitude
\* or for max_iter iterations without convergence; on return iter_values
\* starts with x0, ends with the root returned and has at most
\* max_iter + 1 entries.
Thm_C24 ==
    /\ nrCount <= MaxIter
    /\ Len(nrIterValues) <= nrCount + 1
    /\ nrOut.kind \in {"running", "returned",
                       "ValueError: Derivative near zero; no convergence.",
                       "ValueError: Maximum iterations exceeded; no convergence."}
    /\ nrOut.kind = "returned" =>
        /\ Len(nrIterValues) >= 2
        /\ Len(nrIterValues) <= MaxIter + 1
        /\ nrIterValues[1] = nrArgs.x0
        /\ nrIterValues[Len(nrIterValues)] = nrOut.root
        /\ ~NrDiffers(Len(nrIterValues) - 1)
        /\ \A i \in 1..(Len(nrIterValues) - 2) : NrDiffers(i)
    /\ nrOut.kind # "returned" =>
        \A i \in 1..(Len(nrIterValues) - 1) : NrDiffers(i)
    /\ nrOut.kind = "ValueError: Derivative near zero; no convergence." =>
        nrArgs.update[nrX].flat
    /\ nrOut.kind = "ValueError: Maximum iterations exceeded; no convergence." =>
        Len(nrIterValues) = MaxIter + 1

\* A return in the last iteration allowed, after iterates exactly tol apart.
Wit_C24 ==
    /\ nrOut.kind = "returned"
    /\ nrCount = MaxIter
    /\ nrIterValues[1] = Finite(0)
    /\ nrIterValues[2] = Finite(10)

SpecNewton == NrInit /\ [][NrNext]_vars

(***************************************************************************)
(* solve_periodic_function (src/src/solver.py:100-124) for the function    *)
(* sin(2 pi x / period), whose roots are the multiples of period / 2.      *)
(* Numbers are in units of 1e-7.                                           *)
(***************************************************************************)

MaxGuesses == 2

PfPeriods == {One, 2 * One}
PfRanges == {[range_min |-> 0, range_max |-> 2 * One],
             [range_min |-> -One, range_max |-> One + 50]}

\* What fsolve(func, guess) gives: a root of the function, exact or 5e-6
\* off, or an exception of the kinds the loop swallows.
PfFound(period) ==
    {[raised |-> FALSE, v |-> n * (period \div 2) + e] : n \in -2..4, e \in {0, 50}}
        \cup {[raised |-> TRUE, v |-> 0]}

\* `if not any(np.isclose(candidate_root, r, atol=1e-5) for r in roots):
\* roots.append(candidate_root)`
Kept(roots, candidate_root) ==
    IF \E i \in 1..Len(roots) : IsClose(candidate_root, roots[i])
    THEN roots
    ELSE Append(roots, candidate_root)

\* `while k * period + root_value <= range_max:` the test on the
\* candidate, k += 1.
RECURSIVE Sweep(_, _, _, _, _)
Sweep(roots, k, root_value, period, range_max) ==
    IF k * period + root_value <= range_max
    THEN Sweep(Kept(roots, k * period + root_value), k + 1, root_value, period, range_max)
    ELSE roots

\* k = math.floor((range_min - root_value) / period)
FirstK(range_min, root_value, period) == (range_min - root_value) \div period

PfStart ==
    /\ \E period \in PfPeriods, range \in PfRanges :
        \E found \in [1..MaxGuesses -> PfFound(period)] :
            pfArgs = [period |-> period, range_min |-> range.range_min,
                      range_max |-> range.range_max, found |-> found, given |-> TRUE]
    /\ pfRoots = <<>>
    /\ pfGuess = 0
    /\ pfOut = [returned |-> FALSE, roots |-> <<>>]

PfInit == PfStart /\ NpIdle /\ VrIdle /\ PeIdle /\ RtIdle /\ TnIdle /\ TlIdle /\ UiIdle /\ HmIdle /\ OwIdle /\ LnIdle /\ FnIdle /\ NrIdle /\ LsIdle

\* One guess for which fsolve returns: the sweep over k.
PfSweep ==
    /\ ~pfOut.returned
    /\ pfGuess < MaxGuesses
    /\ ~pfArgs.found[pfGuess + 1].raised
    /\ pfGuess' = pfGuess + 1
    /\ \E root_value \in {pfArgs.found[pfGuess + 1].v} :
        pfRoots' = Sweep(pfRoots, FirstK(pfArgs.range_min, root_value, pfArgs.period),
                         root_value, pfArgs.period, pfArgs.range_max)
    /\ UNCHANGED <<pfArgs, pfOut>>
    /\ UNCHANGED <<npVars, vrVars, peVars, rtVars, tnVars, tlVars, uiVars, hmVars, owVars, lnVars, fnVars, nrVars, lsVars>>

\* `except (ValueError, RuntimeWarning) as e: continue`
PfContinue ==
    /\ ~pfOut.returned
    /\ pfGuess < MaxGuesses
    /\ pfArgs.found[pfGuess + 1].raised
    /\ pfGuess' = pfGuess + 1
    /\ UNCHANGED <<pfArgs, pfRoots, pfOut>>
    /\ UNCHANGED <<npVars, vrVars, peVars, rtVars, tnVars, tlVars, uiVars, hmVars, owVars, lnVars, fnVars, nrVars, lsVars>>

\* return roots
PfReturn ==
    /\ ~pfOut.returned
    /\ pfGuess = MaxGuesses
    /\ pfOut' = [returned |-> TRUE, roots |-> pfRoots]
    /\ UNCHANGED <<pfArgs, pfRoots, pfGuess>>
    /\ UNCHANGED <<npVars, vrVars, peVars, rtVars, tnVars, tlVars, uiVars, hmVars, owVars, lnVars, fnVars, nrVars, lsVars>>

PfNext == PfSweep \/ PfContinue \/ PfReturn

PfInRange ==
    \A i \in 1..Len(pfOut.roots) :
        pfArgs.range_min <= pfOut.roots[i] /\ pfOut.roots[i] <= pfArgs.range_max

PfApart ==
    \A i, j \in 1..Len(pfOut.roots) :
        i # j => Abs(pfOut.roots[i] - pfOut.roots[j]) > Atol

\* C25 as stated: for a positive period every root returned lies within
\* [range_min, range_max], and no two roots returned are within 1e-5 of
\* each other.
CE_C25 == pfOut.returned => PfInRange /\ PfApart

SpecPeriodic == PfInit /\ [][PfNext]_vars

(***************************************************************************)
(* solve_linear_system (src/src/solver.py:127-142 and the older text at    *)
(* src/solver.py:51-63).  A system is the matrix of its coefficients with  *)
(* the constants as last column.                                           *)
(***************************************************************************)

LsSystems ==
    UNION {[1..rows -> [1..(unknowns + 1) -> {0, 1}]] :
            rows \in 1..MaxVarCount, unknowns \in 1..MaxVarCount}

\* sp.linsolve(equations, variables): EmptySet for an inconsistent system,
\* else a FiniteSet of one tuple, in which the unknowns that stay free
\* appear as symbols.
EmptySet == [tuples |-> 0, free |-> 0]
FiniteSet(free) == [tuples |-> 1, free |-> free]
Linsolve(rank_coefficient, rank_augmented, unknowns) ==
    IF rank_coefficient # rank_augmented THEN EmptySet
    ELSE FiniteSet(unknowns - rank_coefficient)

\* np.array(tuple, dtype=float): float() of an expression with a free
\* symbol raises TypeError.
AsFloatArray(solution) ==
    IF solution.free > 0 THEN [kind |-> "TypeError"] ELSE [kind |-> "vector"]

\* src/src/solver.py:136-142.  list(solutions) has as many items as the set
\* has tuples.
SolveLinearSystem(solutions) ==
    IF solutions.tuples = 0 THEN [kind |-> "ValueError"]
    ELSE IF solutions.tuples = 1 THEN AsFloatArray(solutions)
    ELSE [kind |-> "list"]

\* src/solver.py:60-63: no test on the length.
SolveLinearSystemOld(solutions) ==
    IF solutions.tuples = 0 THEN [kind |-> "ValueError"]
    ELSE AsFloatArray(solutions)

LsStart ==
    /\ lsSystem \in LsSystems
    /\ lsOut = [by |-> "none", kind |-> "none"]

LsInit == LsStart /\ NpIdle /\ VrIdle /\ PeIdle /\ RtIdle /\ TnIdle /\ TlIdle /\ UiIdle /\ HmIdle /\ OwIdle /\ LnIdle /\ FnIdle /\ NrIdle /\ PfIdle

LsSolutions ==
    Linsolve(Rank(CoefficientMatrix(lsSystem)), Rank(lsSystem), Len(lsSystem[1]) - 1)

LsSolve ==
    /\ lsOut.by = "none"
    /\ lsOut' = [by |-> "src/src/solver.py", kind |-> SolveLinearSystem(LsSolutions).kind]
    /\ UNCHANGED lsSystem
    /\ UNCHANGED <<npVars, vrVars, peVars, rtVars, tnVars, tlVars, uiVars, hmVars, owVars, lnVars, fnVars, nrVars, pfVars>>

LsSolveOld ==
    /\ lsOut.by = "none"
    /\ lsOut' = [by |-> "src/solver.py", kind |-> SolveLinearSystemOld(LsSolutions).kind]
    /\ UNCHANGED lsSystem
    /\ UNCHANGED <<npVars, vrVars, peVars, rtVars, tnVars, tlVars, uiVars, hmVars, owVars, lnVars, fnVars, nrVars, pfVars>>

LsNext == LsSolve \/ LsSolveOld

\* C26 as stated: solve_linear_system raises ValueError when the system has
\* no solution, returns the numeric solution vector when it has exactly
\* one, and returns the parametrised form, without raising, when it has
\* infinitely many.
CE_C26 ==
    lsOut.by # "none" =>
        \E rc \in {MinorRank(CoefficientMatrix(lsSystem))}, ra \in {MinorRank(lsSystem)} :
            lsOut.kind =
                IF rc # ra THEN "ValueError"
                ELSE IF rc = Len(lsSystem[1]) - 1 THEN "vector"
                ELSE "list"

SpecLinsolve == LsInit /\ [][LsNext]_vars

(***************************************************************************)
(* preprocess_expression (src/src/utils.py:62-78) on the application of a  *)
(* function whose name has the letter e in it.                             *)
(***************************************************************************)

\* A function name applied to an argument, as characters.
Applied(name, arg) == name \o <<"(">> \o arg \o <<")">>

PeNamesWithE == {<<"e", "x", "p">>, <<"s", "e", "c">>}

\* C28 as stated: preprocess_expression leaves the names of the supported
\* functions unchanged: for an input that applies a function whose name
\* has the letter e in it, the output still has that name applied to the
\* same argument.
CE_C28 ==
    pePc = "split" =>
        \A name \in PeNamesWithE :
            Contains(peIn, Applied(name, <<"x">>)) =>
                Contains(peText, Applied(name, <<"x">>))

(***************************************************************************)
(* The special-root blocks of verify_roots (src/src/solver.py:228-251) and *)
(* values within 1e-5 of each other.                                       *)
(***************************************************************************)

\* Two numbers within 1e-5 of each other.
Within(a, b) ==
    /\ a.k = "num"
    /\ b.k = "num"
    /\ Abs(a.re - b.re) <= Atol
    /\ Abs(a.im - b.im) <= Atol

\* No two entries of the list are within 1e-5 of each other.
Apart(list) == \A i, j \in 1..Len(list) : i # j => ~Within(list[i], list[j])

\* C29 as stated: if no two candidates passed to verify_roots are within
\* 1e-5 of each other, no two entries of its result are: a boundary value is
\* not appended when a candidate equal to it within tolerance is already
\* in the result.
CE_C29 == (vrPc = "returned" /\ Apart(vrRoots)) => Apart(vrVerified)

====
